---- MODULE Spec2Model ----
(***************************************************************************)
(* Model of assemble_video.py: the staged, resumable assembly pipeline     *)
(* (preflight, per-slide audio, concat, slideshow with crossfades and      *)
(* hard-cut fallback, loudness analysis, mux) over a work area of          *)
(* artifacts cached by existence; and of its post-processing functions,    *)
(* the three-layer config resolution and the audio filter chain builder.   *)
(*                                                                         *)
(* Time is counted in milliseconds: 1.0 s = 1000, the resolution at which  *)
(* the code emits durations and offsets ("{:.3f}").                        *)
(***************************************************************************)
EXTENDS Integers, Sequences, FiniteSets, TLC

\* ---------------------------------------------------------------- constants
PRE_PAD == 1000
POST_PAD == 1000
SILENT_SLIDE_DUR == 2000
TRANSITION_DURATION == 500
MIN_OFFSET == 100

\* ------------------------------------------------------------------- bounds
MaxNotes == 2
MaxRuns == 2
MaxEnv == 1
MaxXNotes == 3

\* ---------------------------------------------------------- value universes
Slides == {1, 2}
Absent == -1
Corrupt == -2
PartialDur == 300
RawDurs == {1200, 3200}
\* narration present at the start lasts 3.2 s; a re-recording changes it
InitialRawDurs == {3200}
Texts == {<< >>, <<" ">>, <<"a">>}
NoteSet == [slide : Slides, text : Texts]
NoteLists(n) == UNION {[1..k -> NoteSet] : k \in 1..n}
XDurs == {0, 300, 2000, 5200}
XTransitions == {TRANSITION_DURATION, 2500}
Failures == {"nonzero", "timeout"}

Artifacts ==
    ({"padded", "silence", "seg"} \X Slides) \cup {<<"full_audio", 0>>, <<"video_only", 0>>}
FullAudio == <<"full_audio", 0>>
VideoOnly == <<"video_only", 0>>
Output == <<"output", 0>>

VARIABLES
    notes,            \* the notes list read at line 460
    wav,              \* audio_dir: raw duration of slide_NN.wav, Absent if none
    work,             \* v2_dir: duration of each artifact, Absent or Corrupt
    output,           \* output_mp4: duration, Absent or Corrupt
    two_pass,         \* loudnorm enabled and two_pass in the config resolved
                      \* at line 507 of the current run
    transition_dur,   \* transition duration handed to the slideshow builder
    pc,               \* position of main
    idx,              \* index of the note a loop is at (1-based)
    slide_durations,  \* main's slide_durations list
    wav_files,        \* main's wav_files list (artifact names)
    missing_wav,      \* preflight's missing_wav list (slide numbers)
    xfade_steps,      \* crossfade steps of the filter graph built in this run
    calls,            \* external processes invoked in this run, in order
    existedAtCheck,   \* artifacts this run found present at an exists() check
    runs,             \* number of runs started
    envChanges,       \* number of external changes made
    audio_filters,    \* loudness mode of the chain handed to the mux
    quiet,            \* no external change since the current run started
    rerun,            \* the current run started right after a successful,
                      \* undisturbed run
    stats,            \* outcome of this run's loudness analysis pass
    lang_config,      \* state of lang_config.json
    voice_id,         \* voice identifier the config is resolved for
    post_config,      \* post-processing config, as resolved or as handed
                      \* to the chain builder
    chain_args,       \* include_limiter and loudnorm_override of a build
    filters,          \* filter chain built, in order
    mp3,              \* legacy slide_NN.mp3 present in the audio directory
    legacy_mp3_present, \* preflight's list of missing slides that have an MP3
    tts,              \* state of the synthesis script and its retry loops
    procs             \* runs of main interleaved over one work area

vars == <<notes, wav, work, output, two_pass, transition_dur, pc, idx,
          slide_durations, wav_files, missing_wav, xfade_steps, calls,
          existedAtCheck, runs, envChanges, audio_filters, quiet, rerun,
          stats, lang_config, voice_id, post_config, chain_args, filters,
          mp3, legacy_mp3_present, tts, procs>>

\* what config resolution and the chain builder read and return
postVars == <<lang_config, voice_id, post_config, chain_args, filters>>

\* what the assembly stages of a single run leave alone: the legacy MP3s,
\* the synthesis script and the interleaved runs
sideVars == <<mp3, tts, procs>>

\* ------------------------------------------------------------------ helpers
RECURSIVE SeqSum(_)
SeqSum(s) == IF s = << >> THEN 0 ELSE Head(s) + SeqSum(Tail(s))

Min(a, b) == IF a < b THEN a ELSE b

Call(kind, target, rc) == [kind |-> kind, target |-> target, rc |-> rc]

RECURSIVE LStrip(_)
LStrip(t) == IF t # << >> /\ Head(t) = " " THEN LStrip(Tail(t)) ELSE t

RECURSIVE RStrip(_)
RStrip(t) ==
    IF t # << >> /\ t[Len(t)] = " " THEN RStrip(SubSeq(t, 1, Len(t) - 1)) ELSE t

Strip(t) == RStrip(LStrip(t))

_is_narrated_slide(note) == Strip(note.text) # << >>

\* get_duration: ffprobe yields a duration for a readable file only
Probeable(v) == v >= 0

\* preflight_audio_files, lines 78-94: narrated notes without a WAV, in order
RECURSIVE MissingWav(_, _)
MissingWav(ns, audio) ==
    IF ns = << >> THEN << >>
    ELSE LET note == Head(ns)
             rest == MissingWav(Tail(ns), audio)
         IN  IF ~_is_narrated_slide(note) THEN rest
             ELSE IF audio[note.slide] # Absent THEN rest
             ELSE <<note.slide>> \o rest

\* preflight_audio_files, lines 78-94: of the notes reported missing, those
\* that have a legacy MP3, in order
LegacyMp3EveryMissing(ns, audio, legacy) == MissingWav(ns, audio)

RECURSIVE LegacyMp3Present(_, _, _)
LegacyMp3Present(ns, audio, legacy) ==
    IF ns = << >> THEN << >>
    ELSE LET note == Head(ns)
             rest == LegacyMp3Present(Tail(ns), audio, legacy)
         IN  IF ~_is_narrated_slide(note) THEN rest
             ELSE IF audio[note.slide] # Absent THEN rest
             ELSE IF legacy[note.slide] THEN <<note.slide>> \o rest
             ELSE rest

PreflightVerdictNoAbort(missing) == "step1"
PreflightVerdict(missing) == IF missing = << >> THEN "step1" ELSE "failed"

\* the notes in file-name (slide number) order
SortedBySlide ==
    CHOOSE p \in [1..Len(notes) -> 1..Len(notes)] :
        /\ \A i, j \in 1..Len(notes) : i # j => p[i] # p[j]
        /\ \A i, j \in 1..Len(notes) : i < j => notes[p[i]].slide <= notes[p[j]].slide
NoteAtSorted(i) == notes[SortedBySlide[i]]
NoteAt(i) == notes[i]

PaddedDurationNoPost(raw) == PRE_PAD + raw
PaddedDuration(raw) == PRE_PAD + raw + POST_PAD

\* Path.exists() on a work-area artifact (lines 476, 485, 494, 501, 377)
ExistsNeverFullAudio(a, area) == a[1] # "full_audio" /\ area[a] # Absent
ExistsNeverPadded(a, area) == a[1] # "padded" /\ area[a] # Absent
ExistsAndComplete(a, area) == area[a] \notin {Absent, PartialDur, Corrupt}
Exists(a, area) == area[a] # Absent

\* audio_file.exists() of Step 1 (line 475)
AudioExistsIfNarrated(sn, audio) ==
    \E i \in 1..Len(notes) : notes[i].slide = sn /\ _is_narrated_slide(notes[i])
AudioExists(sn, audio) == audio[sn] # Absent

\* what a failed encoder call can leave at its WAV target
WavResidue == {Absent, PartialDur}
\* what a failed encoder call can leave at its MP4 target
Mp4Residue == {Absent, Corrupt}

\* ------------------------------------------------------------- JSON values
\* a JSON value is an object, [obj |-> mapping], or any other value,
\* [leaf |-> v]; a mapping is a function from its keys to JSON values
Obj(f) == [obj |-> f]
Leaf(v) == [leaf |-> v]
EmptyDict == [key \in {} |-> Leaf("null")]
\* isinstance(x, dict)
IsObj(x) == "obj" \in DOMAIN x
\* not x
Falsy(x) == IF IsObj(x) THEN DOMAIN x.obj = {} ELSE x.leaf = "null"
\* d.get(key, default)
Get(d, key, default) == IF key \in DOMAIN d THEN d[key] ELSE default

\* lines 128-135
RECURSIVE _deep_merge(_, _)
ShallowMerge(base, override) ==
    [key \in DOMAIN base \cup DOMAIN override |->
        IF key \in DOMAIN override THEN override[key] ELSE base[key]]
_deep_merge(base, override) ==
    [key \in DOMAIN base \cup DOMAIN override |->
        IF key \notin DOMAIN override
        THEN base[key]
        ELSE IF IsObj(override[key]) /\ key \in DOMAIN base /\ IsObj(base[key])
             THEN Obj(_deep_merge(base[key].obj, override[key].obj))
             ELSE override[key]]

\* lines 37-68, two of the sections with two of their parameters; a leaf
\* carries the layer it comes from in place of its value
DEFAULT_AUDIO_POSTPROCESSING ==
    ("loudnorm" :> Obj(("enabled" :> Leaf("default")) @@ ("two_pass" :> Leaf("default"))))
    @@ ("limiter" :> Obj(("enabled" :> Leaf("default")) @@ ("intensity" :> Leaf("default"))))

Lang == "en"
VoiceIds == {"", "v1"}
\* a non-empty list and null: a true and a false value that are not objects
WrongShapes == {Leaf("list"), Leaf("null")}

\* the audio_postprocessing objects a layer of lang_config.json can hold
ParamField(k, layer) == {EmptyDict, k :> Leaf(layer)}
SectionValues(layer) ==
    {Leaf(layer)} \cup
    {Obj(p @@ q) : p \in ParamField("enabled", layer), q \in ParamField("two_pass", layer)}
SectionField(sec, layer) == {EmptyDict} \cup {sec :> v : v \in SectionValues(layer)}
Overrides(layer) ==
    {Obj(a @@ b) : a \in SectionField("loudnorm", layer), b \in SectionField("limiter", layer)}

OptionalField(k, values) == {EmptyDict} \cup {k :> v : v \in values}
VoiceConfigs ==
    WrongShapes \cup
    {Obj(ap) : ap \in OptionalField("audio_postprocessing", Overrides("voice") \cup WrongShapes)}
VoiceOverrides == WrongShapes \cup {Obj(v) : v \in OptionalField("v1", VoiceConfigs)}
LangEntries ==
    WrongShapes \cup
    {Obj(ap @@ vo) :
        ap \in OptionalField("audio_postprocessing", Overrides("language") \cup WrongShapes),
        vo \in OptionalField("voice_overrides", VoiceOverrides)}
\* lines 144-151: open() raises FileNotFoundError, json.load raises
\* JSONDecodeError, or json.load returns a value
ConfigSources ==
    {[file |-> "missing"], [file |-> "invalid"], [json |-> Leaf("list")]}
    \cup {[json |-> Obj(e)] : e \in OptionalField(Lang, LangEntries)}

Returns(config) == [returns |-> config]
\* .get or .items of a value that is not an object
Raises == [raises |-> "AttributeError"]
Pending == [pending |-> TRUE]

\* lines 138-164
load_audio_postprocess_config(source, lang, voice) ==
    IF "file" \in DOMAIN source
    THEN Returns(DEFAULT_AUDIO_POSTPROCESSING)
    ELSE
    LET all_config == source.json IN
    IF ~IsObj(all_config) THEN Raises ELSE
    LET lang_cfg == Get(all_config.obj, lang, Leaf("null")) IN
    IF Falsy(lang_cfg) THEN Returns(DEFAULT_AUDIO_POSTPROCESSING) ELSE
    IF ~IsObj(lang_cfg) THEN Raises ELSE
    LET lang_ap == Get(lang_cfg.obj, "audio_postprocessing", Obj(EmptyDict)) IN
    IF ~IsObj(lang_ap) THEN Raises ELSE
    LET config == _deep_merge(DEFAULT_AUDIO_POSTPROCESSING, lang_ap.obj) IN
    IF voice = "" THEN Returns(config) ELSE
    LET overrides == Get(lang_cfg.obj, "voice_overrides", Obj(EmptyDict)) IN
    IF ~IsObj(overrides) THEN Raises ELSE
    LET voice_cfg == Get(overrides.obj, voice, Obj(EmptyDict)) IN
    IF ~IsObj(voice_cfg) THEN Raises ELSE
    LET voice_ap == Get(voice_cfg.obj, "audio_postprocessing", Obj(EmptyDict)) IN
    IF ~IsObj(voice_ap) THEN Raises ELSE
    Returns(_deep_merge(config, voice_ap.obj))

\* no legacy MP3s; the synthesis script and the interleaved runs are not
\* part of the state of a single assembly run
SideIdle ==
    /\ mp3 = [s \in Slides |-> FALSE]
    /\ legacy_mp3_present = << >>
    /\ tts = [pc |-> "off"]
    /\ procs = << >>

\* config resolution and chain building are not part of the state of the
\* assembly stages
PostIdle ==
    /\ lang_config = [file |-> "missing"]
    /\ voice_id = ""
    /\ post_config = Pending
    /\ chain_args = Pending
    /\ filters = << >>

\* --------------------------------------------------------------------- Init
InitRun ==
    /\ pc = "idle"
    /\ idx = 1
    /\ slide_durations = << >>
    /\ wav_files = << >>
    /\ missing_wav = << >>
    /\ xfade_steps = << >>
    /\ calls = << >>
    /\ existedAtCheck = {}
    /\ runs = 0
    /\ envChanges = 0
    /\ audio_filters = "none"
    /\ quiet = FALSE
    /\ rerun = FALSE

Init ==
    /\ notes \in NoteLists(MaxNotes)
    /\ wav \in [Slides -> {Absent} \cup InitialRawDurs]
    /\ work = [a \in Artifacts |-> Absent]
    /\ output = Absent
    /\ two_pass = FALSE
    /\ transition_dur = TRANSITION_DURATION
    /\ stats = "none"
    /\ PostIdle
    /\ SideIdle
    /\ InitRun

\* --------------------------------------------------------------------- main
AbortReportsSuccess == pc' = "done"
AbortRetries == pc' = pc
Abort == pc' = "failed"

StartRun ==
    /\ pc \in {"idle", "done", "failed"}
    /\ runs < MaxRuns
    /\ runs' = runs + 1
    /\ rerun' = (pc = "done" /\ quiet)
    /\ quiet' = TRUE
    /\ pc' = "preflight"
    /\ idx' = 1
    /\ slide_durations' = << >>
    /\ wav_files' = << >>
    /\ missing_wav' = << >>
    /\ xfade_steps' = << >>
    /\ calls' = << >>
    /\ existedAtCheck' = {}
    /\ audio_filters' = "none"
    /\ two_pass' = FALSE
    /\ stats' = "none"
    /\ legacy_mp3_present' = << >>
    /\ UNCHANGED <<notes, wav, work, output, transition_dur, envChanges, postVars, sideVars>>

Preflight ==
    /\ pc = "preflight"
    /\ missing_wav' = MissingWav(notes, wav)
    /\ legacy_mp3_present' = LegacyMp3Present(notes, wav, mp3)
    /\ pc' = PreflightVerdict(missing_wav')
    /\ UNCHANGED <<notes, wav, work, output, two_pass, transition_dur, idx,
                   slide_durations, wav_files, xfade_steps, calls, stats, postVars, sideVars,
                   existedAtCheck, runs, envChanges, audio_filters, quiet, rerun>>

\* next position of the Step 1 loop after the note at idx
AfterSlideSkipsConcat == IF idx = Len(notes) THEN "step3" ELSE "step1"
AfterSlide == IF idx = Len(notes) THEN "step2" ELSE "step1"

Step1Frame == UNCHANGED <<notes, wav, output, two_pass, transition_dur, stats, postVars, sideVars,
                        legacy_mp3_present,
                          missing_wav, xfade_steps, runs, envChanges, audio_filters,
                          quiet, rerun>>

\* lines 475-482, padded clip absent, pad succeeds
PadAudio ==
    /\ pc = "step1"
    /\ LET sn == NoteAt(idx).slide
           padded_wav == <<"padded", sn>>
           dur == PaddedDuration(wav[sn])
       IN  /\ AudioExists(sn, wav)
           /\ ~Exists(padded_wav, work)
           /\ work' = [work EXCEPT ![padded_wav] = dur]
           /\ calls' = calls \o <<Call("pad", padded_wav, "ok"), Call("probe", padded_wav, "ok")>>
           /\ slide_durations' = Append(slide_durations, dur)
           /\ wav_files' = Append(wav_files, padded_wav)
    /\ pc' = AfterSlide
    /\ idx' = idx + 1
    /\ UNCHANGED existedAtCheck
    /\ Step1Frame

\* lines 476-478, pad_audio_to_wav raises (check=True / timeout)
PadAudioFail ==
    /\ pc = "step1"
    /\ LET sn == NoteAt(idx).slide
           padded_wav == <<"padded", sn>>
       IN  /\ AudioExists(sn, wav)
           /\ ~Exists(padded_wav, work)
           /\ \E rc \in Failures, left \in WavResidue :
                /\ work' = [work EXCEPT ![padded_wav] = left]
                /\ calls' = Append(calls, Call("pad", padded_wav, rc))
    /\ Abort
    /\ UNCHANGED <<idx, slide_durations, wav_files, existedAtCheck>>
    /\ Step1Frame

\* lines 475-482, padded clip present: only its duration is read
ReusePadded ==
    /\ pc = "step1"
    /\ LET sn == NoteAt(idx).slide
           padded_wav == <<"padded", sn>>
       IN  /\ AudioExists(sn, wav)
           /\ Exists(padded_wav, work)
           /\ existedAtCheck' = existedAtCheck \cup {padded_wav}
           /\ calls' = Append(calls, Call("probe", padded_wav, "ok"))
           /\ slide_durations' = Append(slide_durations, work[padded_wav])
           /\ wav_files' = Append(wav_files, padded_wav)
    /\ pc' = AfterSlide
    /\ idx' = idx + 1
    /\ UNCHANGED work
    /\ Step1Frame

\* lines 483-489, silence clip absent, create_silence_wav succeeds
CreateSilence ==
    /\ pc = "step1"
    /\ LET sn == NoteAt(idx).slide
           silence_wav == <<"silence", sn>>
       IN  /\ ~AudioExists(sn, wav)
           /\ ~Exists(silence_wav, work)
           /\ work' = [work EXCEPT ![silence_wav] = SILENT_SLIDE_DUR]
           /\ calls' = Append(calls, Call("silence", silence_wav, "ok"))
           /\ slide_durations' = Append(slide_durations, SILENT_SLIDE_DUR)
           /\ wav_files' = Append(wav_files, silence_wav)
    /\ pc' = AfterSlide
    /\ idx' = idx + 1
    /\ UNCHANGED existedAtCheck
    /\ Step1Frame

\* lines 485-486, create_silence_wav raises
CreateSilenceFail ==
    /\ pc = "step1"
    /\ LET sn == NoteAt(idx).slide
           silence_wav == <<"silence", sn>>
       IN  /\ ~AudioExists(sn, wav)
           /\ ~Exists(silence_wav, work)
           /\ \E rc \in Failures, left \in WavResidue :
                /\ work' = [work EXCEPT ![silence_wav] = left]
                /\ calls' = Append(calls, Call("silence", silence_wav, rc))
    /\ Abort
    /\ UNCHANGED <<idx, slide_durations, wav_files, existedAtCheck>>
    /\ Step1Frame

\* lines 483-489, silence clip present: nothing is run, 2.0 s is recorded
ReuseSilence ==
    /\ pc = "step1"
    /\ LET sn == NoteAt(idx).slide
           silence_wav == <<"silence", sn>>
       IN  /\ ~AudioExists(sn, wav)
           /\ Exists(silence_wav, work)
           /\ existedAtCheck' = existedAtCheck \cup {silence_wav}
           /\ slide_durations' = Append(slide_durations, SILENT_SLIDE_DUR)
           /\ wav_files' = Append(wav_files, silence_wav)
    /\ pc' = AfterSlide
    /\ idx' = idx + 1
    /\ UNCHANGED <<work, calls>>
    /\ Step1Frame

\* ------------------------------------------------------------------- Step 2
Step2Frame == UNCHANGED <<notes, wav, output, two_pass, transition_dur, idx, stats, postVars, sideVars,
                        legacy_mp3_present,
                          slide_durations, wav_files, missing_wav, xfade_steps,
                          runs, envChanges, audio_filters, quiet, rerun>>

\* concat demuxer: the listed files, back to back
ConcatDurationSkipFirst(files, area) ==
    SeqSum([k \in 1..(Len(files) - 1) |-> area[files[k + 1]]])
ConcatDuration(files, area) == SeqSum([k \in 1..Len(files) |-> area[files[k]]])

ListedReadable(files, area) == \A k \in 1..Len(files) : Probeable(area[files[k]])

\* lines 494-496, full_audio.wav absent, concat_audio succeeds
ConcatAudio ==
    /\ pc = "step2"
    /\ ~Exists(FullAudio, work)
    /\ ListedReadable(wav_files, work)
    /\ work' = [work EXCEPT ![FullAudio] = ConcatDuration(wav_files, work)]
    /\ calls' = calls \o <<Call("concat", FullAudio, "ok"), Call("probe", FullAudio, "ok")>>
    /\ pc' = "step3"
    /\ UNCHANGED existedAtCheck
    /\ Step2Frame

\* lines 494-495, concat_audio raises
ConcatAudioFail ==
    /\ pc = "step2"
    /\ ~Exists(FullAudio, work)
    /\ \E rc \in Failures, left \in WavResidue :
         /\ work' = [work EXCEPT ![FullAudio] = left]
         /\ calls' = Append(calls, Call("concat", FullAudio, rc))
    /\ Abort
    /\ UNCHANGED existedAtCheck
    /\ Step2Frame

\* lines 494-496, full_audio.wav present: only its duration is read
ReuseFullAudio ==
    /\ pc = "step2"
    /\ Exists(FullAudio, work)
    /\ existedAtCheck' = existedAtCheck \cup {FullAudio}
    /\ calls' = Append(calls, Call("probe", FullAudio, "ok"))
    /\ pc' = "step3"
    /\ UNCHANGED work
    /\ Step2Frame

\* ------------------------------------------------------------------- Step 3
ClampOffsetNone(offset) == offset
ClampOffset(offset) == IF offset < MIN_OFFSET THEN MIN_OFFSET ELSE offset

NextCumulativeRawSum(cumulative, dur, offset) == cumulative + dur
NextCumulative(cumulative, dur, offset) == offset

OutLabel(i, n) == IF i = n - 1 THEN <<"vout", 0>> ELSE <<"v", i>>

\* lines 338-350: the crossfade loop, i = 1 .. n-1
RECURSIVE XfadeLoop(_, _, _, _, _)
XfadeLoop(i, cumulative, durs, T, acc) ==
    IF i > Len(durs) - 1 THEN acc
    ELSE LET offset == ClampOffset(cumulative + durs[i] - T)
             step == [offset |-> offset, duration |-> T,
                      out_label |-> OutLabel(i, Len(durs))]
         IN  XfadeLoop(i + 1, NextCumulative(cumulative, durs[i], offset),
                       durs, T, Append(acc, step))

\* lines 332-350: no crossfade step for a single slide
XfadeGraph(durs, T) == IF Len(durs) = 1 THEN << >> ELSE XfadeLoop(1, 0, durs, T, << >>)

\* length of the track the crossfade graph renders
RenderedLengthNoOverlap(durs, steps) == SeqSum(durs)
RenderedLength(durs, steps) ==
    IF steps = << >> THEN durs[1] ELSE steps[Len(steps)].offset + durs[Len(durs)]

AfterXfadeRetry(rc) == IF rc = "ok" THEN "step4" ELSE "step3"
AfterXfade(rc) == IF rc = "ok" THEN "step4" ELSE "fallback"

Step3Frame == UNCHANGED <<notes, wav, output, two_pass, transition_dur, stats, postVars, sideVars,
                        legacy_mp3_present,
                          slide_durations, wav_files, missing_wav,
                          runs, envChanges, audio_filters, quiet, rerun>>

\* lines 362-363 and 503: the crossfade encode exits 0
XfadeOk ==
    /\ pc = "step3"
    /\ ~Exists(VideoOnly, work)
    /\ xfade_steps' = XfadeGraph(slide_durations, transition_dur)
    /\ work' = [work EXCEPT ![VideoOnly] = RenderedLength(slide_durations, xfade_steps')]
    /\ calls' = calls \o <<Call("xfade", VideoOnly, "ok"), Call("probe", VideoOnly, "ok")>>
    /\ pc' = AfterXfade("ok")
    /\ UNCHANGED <<idx, existedAtCheck>>
    /\ Step3Frame

\* lines 362-365: the crossfade encode exits non-zero
XfadeNonzero ==
    /\ pc = "step3"
    /\ ~Exists(VideoOnly, work)
    /\ xfade_steps' = XfadeGraph(slide_durations, transition_dur)
    /\ \E left \in Mp4Residue : work' = [work EXCEPT ![VideoOnly] = left]
    /\ calls' = Append(calls, Call("xfade", VideoOnly, "nonzero"))
    /\ pc' = AfterXfade("nonzero")
    /\ idx' = 1
    /\ UNCHANGED existedAtCheck
    /\ Step3Frame

\* line 362: subprocess.run raises TimeoutExpired, nothing catches it
XfadeTimeout ==
    /\ pc = "step3"
    /\ ~Exists(VideoOnly, work)
    /\ xfade_steps' = XfadeGraph(slide_durations, transition_dur)
    /\ \E left \in Mp4Residue : work' = [work EXCEPT ![VideoOnly] = left]
    /\ calls' = Append(calls, Call("xfade", VideoOnly, "timeout"))
    /\ Abort
    /\ UNCHANGED <<idx, existedAtCheck>>
    /\ Step3Frame

\* lines 501-503, video_only.mp4 present: only its duration is read
ReuseVideoOnly ==
    /\ pc = "step3"
    /\ Exists(VideoOnly, work)
    /\ existedAtCheck' = existedAtCheck \cup {VideoOnly}
    /\ calls' = Append(calls, Call("probe", VideoOnly,
                                   IF Probeable(work[VideoOnly]) THEN "ok" ELSE "nonzero"))
    /\ pc' = IF Probeable(work[VideoOnly]) THEN "step4" ELSE "failed"
    /\ UNCHANGED <<work, idx, xfade_steps>>
    /\ Step3Frame

AfterSegment == IF idx = Len(notes) THEN "fbconcat" ELSE "fallback"

\* lines 372-386, segment absent and rendered
FallbackSegment ==
    /\ pc = "fallback"
    /\ LET seg == <<"seg", notes[idx].slide>>
       IN  /\ ~Exists(seg, work)
           /\ work' = [work EXCEPT ![seg] = slide_durations[idx]]
           /\ calls' = Append(calls, Call("seg", seg, "ok"))
    /\ pc' = AfterSegment
    /\ idx' = idx + 1
    /\ UNCHANGED <<xfade_steps, existedAtCheck>>
    /\ Step3Frame

\* lines 377-385, the segment encode raises
FallbackSegmentFail ==
    /\ pc = "fallback"
    /\ LET seg == <<"seg", notes[idx].slide>>
       IN  /\ ~Exists(seg, work)
           /\ \E rc \in Failures, left \in Mp4Residue :
                /\ work' = [work EXCEPT ![seg] = left]
                /\ calls' = Append(calls, Call("seg", seg, rc))
    /\ Abort
    /\ UNCHANGED <<idx, xfade_steps, existedAtCheck>>
    /\ Step3Frame

\* lines 376-386, segment present: listed as it is
ReuseSegment ==
    /\ pc = "fallback"
    /\ LET seg == <<"seg", notes[idx].slide>>
       IN  /\ Exists(seg, work)
           /\ existedAtCheck' = existedAtCheck \cup {seg}
    /\ pc' = AfterSegment
    /\ idx' = idx + 1
    /\ UNCHANGED <<work, calls, xfade_steps>>
    /\ Step3Frame

SegmentListFirstOnly == [k \in 1..Len(notes) |-> <<"seg", notes[1].slide>>]
SegmentList == [k \in 1..Len(notes) |-> <<"seg", notes[k].slide>>]

\* lines 388-393 and 503: the hard-cut concat succeeds
FallbackConcat ==
    /\ pc = "fbconcat"
    /\ ListedReadable(SegmentList, work)
    /\ work' = [work EXCEPT ![VideoOnly] = ConcatDuration(SegmentList, work)]
    /\ calls' = calls \o <<Call("fbconcat", VideoOnly, "ok"), Call("probe", VideoOnly, "ok")>>
    /\ pc' = "step4"
    /\ UNCHANGED <<idx, xfade_steps, existedAtCheck>>
    /\ Step3Frame

\* lines 388-393: the hard-cut concat raises
FallbackConcatFail ==
    /\ pc = "fbconcat"
    /\ \E rc \in Failures, left \in {work[VideoOnly], Corrupt} :
         /\ work' = [work EXCEPT ![VideoOnly] = left]
         /\ calls' = Append(calls, Call("fbconcat", VideoOnly, rc))
    /\ Abort
    /\ UNCHANGED <<idx, xfade_steps, existedAtCheck>>
    /\ Step3Frame

\* ------------------------------------------------------------------- Step 4
Step4Frame == UNCHANGED <<notes, wav, work, transition_dur, idx, postVars, sideVars,
                        legacy_mp3_present,
                          slide_durations, wav_files, missing_wav, xfade_steps,
                          existedAtCheck, runs, envChanges, quiet, rerun>>

\* lines 411-421, two_pass off: single-pass chain, no analysis
SinglePass ==
    /\ pc = "step4"
    /\ two_pass' = FALSE
    /\ audio_filters' = "single"
    /\ pc' = "mux"
    /\ UNCHANGED <<calls, output, stats>>
    /\ Step4Frame

\* lines 413-416, analysis exits 0 and the statistics block parses with
\* every field the two-pass filter reads
AnalysisStats ==
    /\ pc = "step4"
    /\ two_pass' = TRUE
    /\ stats' = "complete"
    /\ audio_filters' = "two_pass"
    /\ calls' = Append(calls, Call("analysis", FullAudio, "ok"))
    /\ pc' = "mux"
    /\ UNCHANGED output
    /\ Step4Frame

\* run_loudnorm_analysis returns None: non-zero exit (lines 243-244), no
\* block matched (lines 220-222) or block not valid JSON (lines 224-225)
NoStats == {"nonzero", "absent", "unparsable"}

\* lines 417-419: no statistics, single-pass chain
AnalysisNoStats ==
    /\ pc = "step4"
    /\ two_pass' = TRUE
    /\ audio_filters' = "single"
    /\ \E out \in NoStats :
         /\ stats' = out
         /\ calls' = Append(calls, Call("analysis", FullAudio,
                                       IF out = "nonzero" THEN "nonzero" ELSE "ok"))
    /\ pc' = "mux"
    /\ UNCHANGED output
    /\ Step4Frame

\* lines 414-416 and 250-254: the block parses but lacks a field the
\* two-pass filter reads; stats[...] raises KeyError, nothing catches it
AnalysisIncomplete ==
    /\ pc = "step4"
    /\ two_pass' = TRUE
    /\ stats' = "incomplete"
    /\ calls' = Append(calls, Call("analysis", FullAudio, "ok"))
    /\ Abort
    /\ UNCHANGED <<output, audio_filters>>
    /\ Step4Frame

\* line 239: subprocess.run raises TimeoutExpired, nothing catches it
AnalysisTimeout ==
    /\ pc = "step4"
    /\ two_pass' = TRUE
    /\ calls' = Append(calls, Call("analysis", FullAudio, "timeout"))
    /\ Abort
    /\ UNCHANGED <<output, audio_filters, stats>>
    /\ Step4Frame

\* lines 423-434 and 510: -shortest clips to the shorter track
Mux ==
    /\ pc = "mux"
    /\ output' = Min(work[VideoOnly], work[FullAudio])
    /\ calls' = calls \o <<Call("mux", Output, "ok"), Call("probe", Output, "ok")>>
    /\ pc' = "done"
    /\ UNCHANGED <<audio_filters, two_pass, stats>>
    /\ Step4Frame

\* lines 423-434: the mux raises
MuxFail ==
    /\ pc = "mux"
    /\ \E rc \in Failures, left \in {output, Corrupt} :
         /\ output' = left
         /\ calls' = Append(calls, Call("mux", Output, rc))
    /\ Abort
    /\ UNCHANGED <<audio_filters, two_pass, stats>>
    /\ Step4Frame

\* ------------------------------------------------------------- environment
EnvFrame == UNCHANGED <<notes, output, two_pass, transition_dur, pc, idx, stats, postVars, sideVars,
                        legacy_mp3_present,
                        slide_durations, wav_files, missing_wav, xfade_steps,
                        calls, existedAtCheck, runs, audio_filters, rerun>>

\* a narration file is added, removed or re-recorded; the run reads the
\* audio directory in preflight and Step 1 only, so a change made during a
\* later step shows like one made after the run
ChangeNarration ==
    /\ envChanges < MaxEnv
    /\ pc \in {"idle", "done", "failed", "step1"}
    /\ \E s \in Slides :
         \E v \in ({Absent} \cup RawDurs) \ {wav[s]} :
            wav' = [wav EXCEPT ![s] = v]
    /\ envChanges' = envChanges + 1
    /\ quiet' = FALSE
    /\ UNCHANGED work
    /\ EnvFrame

\* external cleanup removes an artifact while no run is in progress
Cleanup ==
    /\ envChanges < MaxEnv
    /\ pc \in {"idle", "done", "failed"}
    /\ \E a \in Artifacts :
         /\ work[a] # Absent
         /\ work' = [work EXCEPT ![a] = Absent]
    /\ envChanges' = envChanges + 1
    /\ quiet' = FALSE
    /\ UNCHANGED wav
    /\ EnvFrame

\* --------------------------------------------------------------- behaviours
RunNext ==
    \/ StartRun
    \/ Preflight
    \/ PadAudio
    \/ PadAudioFail
    \/ ReusePadded
    \/ CreateSilence
    \/ CreateSilenceFail
    \/ ReuseSilence
    \/ ConcatAudio
    \/ ConcatAudioFail
    \/ ReuseFullAudio
    \/ XfadeOk
    \/ XfadeNonzero
    \/ XfadeTimeout
    \/ ReuseVideoOnly
    \/ FallbackSegment
    \/ FallbackSegmentFail
    \/ ReuseSegment
    \/ FallbackConcat
    \/ FallbackConcatFail
    \/ SinglePass
    \/ AnalysisStats
    \/ AnalysisNoStats
    \/ AnalysisIncomplete
    \/ AnalysisTimeout
    \/ Mux
    \/ MuxFail

EnvNext == ChangeNarration \/ Cleanup

Next == RunNext \/ EnvNext

Spec == Init /\ [][Next]_vars

\* ------------------------------------------- the slideshow builder on its own
\* build_video_slideshow applied to any notes, durations and transition
InitX ==
    /\ \E n \in 1..MaxXNotes :
         /\ notes \in [1..n -> [slide : Slides, text : {<<"a">>}]]
         /\ slide_durations \in [1..n -> XDurs]
    /\ transition_dur \in XTransitions
    /\ wav = [s \in Slides |-> Absent]
    /\ work = [a \in Artifacts |-> Absent]
    /\ output = Absent
    /\ two_pass = FALSE
    /\ pc = "step3"
    /\ idx = 1
    /\ wav_files = << >>
    /\ missing_wav = << >>
    /\ xfade_steps = << >>
    /\ calls = << >>
    /\ existedAtCheck = {}
    /\ runs = 1
    /\ envChanges = 0
    /\ audio_filters = "none"
    /\ quiet = TRUE
    /\ rerun = FALSE
    /\ stats = "none"
    /\ PostIdle
    /\ SideIdle

NextX ==
    \/ XfadeOk
    \/ XfadeNonzero
    \/ XfadeTimeout
    \/ FallbackSegment
    \/ FallbackSegmentFail
    \/ ReuseSegment
    \/ FallbackConcat
    \/ FallbackConcatFail

SpecXfade == InitX /\ [][NextX]_vars

\* lines 514-519: main returns (exit code 0) or an exception leaves main
\* (exit code 1); -1 while the run is going on
ExitCode == IF pc = "done" THEN 0 ELSE IF pc = "failed" THEN 1 ELSE 0 - 1

\* ------------------------------------------ config resolution on its own
\* the assembly stages stand still at Step 4, where main resolves the config
StagesAtStep4 ==
    /\ notes = << >>
    /\ wav = [s \in Slides |-> Absent]
    /\ work = [a \in Artifacts |-> Absent]
    /\ output = Absent
    /\ two_pass = FALSE
    /\ transition_dur = TRANSITION_DURATION
    /\ pc = "step4"
    /\ idx = 1
    /\ slide_durations = << >>
    /\ wav_files = << >>
    /\ missing_wav = << >>
    /\ xfade_steps = << >>
    /\ calls = << >>
    /\ existedAtCheck = {}
    /\ runs = 1
    /\ envChanges = 0
    /\ audio_filters = "none"
    /\ quiet = TRUE
    /\ rerun = FALSE
    /\ stats = "none"
    /\ SideIdle

StagesFrame == UNCHANGED <<notes, wav, work, output, two_pass, transition_dur, pc,
                           idx, slide_durations, wav_files, missing_wav,
                           xfade_steps, calls, existedAtCheck, runs, envChanges,
                           audio_filters, quiet, rerun, stats, sideVars,
                           legacy_mp3_present>>

InitConfig ==
    /\ StagesAtStep4
    /\ lang_config \in ConfigSources
    /\ voice_id \in VoiceIds
    /\ post_config = Pending
    /\ chain_args = Pending
    /\ filters = << >>

\* line 507
LoadConfig ==
    /\ post_config = Pending
    /\ post_config' = load_audio_postprocess_config(lang_config, Lang, voice_id)
    /\ UNCHANGED <<lang_config, voice_id, chain_args, filters>>
    /\ StagesFrame

NextConfig == LoadConfig

SpecConfig == InitConfig /\ [][NextConfig]_vars

\* --------------------------------------------- build_audio_filter_chain
\* intensity, base_limit and limit are counted in thousandths (the "{:.3f}"
\* of the emitted filter), gain_db in 1/10000 dB, frequency in Hz
GAIN_EPSILON == 10

\* config.get(name, {})
Section(config, name) == Get(config, name, Obj(EmptyDict)).obj
\* float(section.get(key, default))
Num(section, key, default) == Get(section, key, Leaf(default)).leaf
\* section.get("enabled")
Enabled(section) == Get(section, "enabled", Leaf(FALSE)).leaf
Abs(x) == IF x < 0 THEN 0 - x ELSE x
\* max(0.0, x)
NonNegative(x) == IF x < 0 THEN 0 ELSE x
\* "{:.3f}" of a value given in millionths
Round3(x) == (x + 500) \div 1000

\* lines 206-212
LimiterLimitTightens(base_limit, intensity) ==
    Round3(Min(1000000, base_limit * 1000 + (1000 - base_limit) * NonNegative(intensity)))
LimiterLimit(base_limit, intensity) ==
    Round3(Min(1000000,
               base_limit * 1000 + (1000 - base_limit) * (1000 - NonNegative(intensity))))

\* lines 170-176
DeesserStage(config) ==
    LET deesser == Section(config, "deesser")
        intensity == NonNegative(Num(deesser, "intensity", 0))
    IN  IF Enabled(deesser) /\ intensity > 0
        THEN <<[stage |-> "deesser", i |-> intensity]>>
        ELSE << >>

\* lines 178-182
HighpassStage(config) ==
    LET highpass == Section(config, "highpass")
        freq == Num(highpass, "frequency", 80)
    IN  IF Enabled(highpass) /\ freq > 0
        THEN <<[stage |-> "highpass", f |-> freq]>>
        ELSE << >>

\* lines 184-192
PresenceStage(config) ==
    LET presence == Section(config, "presence_eq")
        gain == Num(presence, "gain_db", 0)
    IN  IF Enabled(presence) /\ Abs(gain) > GAIN_EPSILON
        THEN <<[stage |-> "equalizer", g |-> gain]>>
        ELSE << >>

\* "{:g}" of a number counted in hundredths: six significant digits
FormatG(x) == IF Abs(x) < 1000000 THEN x ELSE ((x + 5) \div 10) * 10

\* loudnorm_override=None
NoOverride == [none |-> TRUE]

\* lines 230-232 and 251-253: I, LRA and TP of the config, in hundredths
LoudnormTargets(config) ==
    LET loudnorm_cfg == Section(config, "loudnorm")
    IN  [I |-> FormatG(Num(loudnorm_cfg, "I", -1600)),
         LRA |-> FormatG(Num(loudnorm_cfg, "LRA", 1100)),
         TP |-> FormatG(Num(loudnorm_cfg, "TP", -150))]

\* lines 229-235
AnalysisFilter(config) == [targets |-> LoudnormTargets(config), print_format |-> "json"]

\* lines 249-260
TwoPassFilterDynamic(config, st) ==
    [targets |-> LoudnormTargets(config),
     measured_I |-> FormatG(st.input_i),
     measured_LRA |-> FormatG(st.input_lra),
     measured_TP |-> FormatG(st.input_tp),
     measured_thresh |-> FormatG(st.input_thresh),
     offset |-> FormatG(st.target_offset),
     linear |-> FALSE,
     print_format |-> "summary"]
TwoPassFilter(config, st) ==
    [targets |-> LoudnormTargets(config),
     measured_I |-> FormatG(st.input_i),
     measured_LRA |-> FormatG(st.input_lra),
     measured_TP |-> FormatG(st.input_tp),
     measured_thresh |-> FormatG(st.input_thresh),
     offset |-> FormatG(st.target_offset),
     linear |-> TRUE,
     print_format |-> "summary"]

\* lines 194-204
LoudnessStage(config, loudnorm_override) ==
    IF loudnorm_override # NoOverride
    THEN <<[stage |-> "loudnorm", args |-> loudnorm_override]>>
    ELSE IF Enabled(Section(config, "loudnorm"))
         THEN <<[stage |-> "loudnorm", args |-> "config"]>>
         ELSE << >>

\* lines 206-213
LimiterStage(config, include_limiter) ==
    LET limiter_cfg == Section(config, "limiter")
    IN  IF include_limiter /\ Enabled(limiter_cfg)
        THEN <<[stage |-> "alimiter",
                limit |-> LimiterLimit(Num(limiter_cfg, "base_limit", 891),
                                       Num(limiter_cfg, "intensity", 1000))]>>
        ELSE << >>

\* line 215: the filters joined by commas, or the passthrough filter
JoinFilters(stages) == IF stages = << >> THEN <<[stage |-> "anull"]>> ELSE stages

\* lines 167-215
LoudnessFirstChain(config, include_limiter, loudnorm_override) ==
    JoinFilters(LoudnessStage(config, loudnorm_override)
                \o HighpassStage(config)
                \o PresenceStage(config)
                \o DeesserStage(config)
                \o LimiterStage(config, include_limiter))
build_audio_filter_chain(config, include_limiter, loudnorm_override) ==
    JoinFilters(DeesserStage(config)
                \o HighpassStage(config)
                \o PresenceStage(config)
                \o LoudnessStage(config, loudnorm_override)
                \o LimiterStage(config, include_limiter))

\* a section is absent, disabled, or enabled with some of its parameters
SectionChoices(name, key, values) ==
    {EmptyDict, name :> Obj(("enabled" :> Leaf(FALSE)) @@ (key :> Leaf(80)))}
    \cup {name :> Obj(("enabled" :> Leaf(TRUE)) @@ p) :
             p \in OptionalField(key, {Leaf(v) : v \in values})}
LimiterChoices ==
    {EmptyDict, "limiter" :> Obj("enabled" :> Leaf(FALSE))}
    \cup {"limiter" :> Obj(("enabled" :> Leaf(TRUE)) @@ i @@ b) :
             i \in OptionalField("intensity", {Leaf(v) : v \in {-500, 0, 250, 1000, 2000}}),
             b \in OptionalField("base_limit", {Leaf(v) : v \in {0, 500, 891, 1000}})}
ChainConfigs ==
    {d @@ h @@ p @@ n @@ l :
        d \in SectionChoices("deesser", "intensity", {-500, 0, 500}),
        h \in SectionChoices("highpass", "frequency", {0, 80}),
        p \in SectionChoices("presence_eq", "gain_db", {0, 10, 11, -15000}),
        n \in {EmptyDict, "loudnorm" :> Obj("enabled" :> Leaf(FALSE)),
               "loudnorm" :> Obj("enabled" :> Leaf(TRUE)),
               "loudnorm" :> Obj(("enabled" :> Leaf(TRUE)) @@ ("I" :> Leaf(-1400))
                                 @@ ("LRA" :> Leaf(700)) @@ ("TP" :> Leaf(-100)))},
        l \in LimiterChoices}
\* statistics blocks of an analysis pass, values in hundredths
StatsRecords ==
    {[input_i |-> -2310, input_lra |-> 450, input_tp |-> -620,
      input_thresh |-> -3354, target_offset |-> 30],
     [input_i |-> -1588, input_lra |-> 1210, input_tp |-> -95,
      input_thresh |-> -2601, target_offset |-> -12]}

\* lines 237 and 262: no override, the analysis filter, the measured filter
LoudnormOverrides(config) ==
    {NoOverride, AnalysisFilter(config)}
    \cup {TwoPassFilter(config, st) : st \in StatsRecords}

\* line 237: the chain of the analysis pass
AnalysisArgsWithLimiter(config) ==
    [caller |-> "run_loudnorm_analysis", include_limiter |-> TRUE,
     loudnorm_override |-> AnalysisFilter(config)]
AnalysisArgs(config) ==
    [caller |-> "run_loudnorm_analysis", include_limiter |-> FALSE,
     loudnorm_override |-> AnalysisFilter(config)]
\* line 262: the chain of the measured encode
TwoPassArgs(config, st) ==
    [caller |-> "build_two_pass_loudnorm_filter", stats |-> st, include_limiter |-> TRUE,
     loudnorm_override |-> TwoPassFilter(config, st)]
\* lines 419 and 421: the single-pass chain, default arguments of line 167
SinglePassArgs ==
    [caller |-> "mux_video_audio", include_limiter |-> TRUE, loudnorm_override |-> NoOverride]
\* any other arguments
DirectArgs(config) ==
    {[caller |-> "direct", include_limiter |-> b, loudnorm_override |-> o] :
        b \in BOOLEAN, o \in {NoOverride, AnalysisFilter(config)}}
ChainArgs(config) ==
    {AnalysisArgs(config), SinglePassArgs}
    \cup {TwoPassArgs(config, st) : st \in StatsRecords}
    \cup DirectArgs(config)

InitChain ==
    /\ StagesAtStep4
    /\ lang_config = [file |-> "missing"]
    /\ voice_id = ""
    /\ post_config \in {Returns(c) : c \in ChainConfigs}
    /\ chain_args \in ChainArgs(post_config.returns)
    /\ filters = << >>

\* lines 237, 262, 419 and 421
BuildChain ==
    /\ filters = << >>
    /\ filters' = build_audio_filter_chain(post_config.returns, chain_args.include_limiter,
                                           chain_args.loudnorm_override)
    /\ UNCHANGED <<lang_config, voice_id, post_config, chain_args>>
    /\ StagesFrame

NextChain == BuildChain

SpecChain == InitChain /\ [][NextChain]_vars

\* ------------------------------------------------------------------- claims
EncoderKinds == {"pad", "silence", "concat", "xfade", "seg", "fbconcat", "analysis", "mux"}
GeneratingKinds == {"pad", "silence", "concat", "xfade", "seg", "fbconcat"}
CallsOf(kinds) == {k \in 1..Len(calls) : calls[k].kind \in kinds}
NewCalls ==
    IF Len(calls') > Len(calls) THEN SubSeq(calls', Len(calls) + 1, Len(calls')) ELSE << >>
InRunAfterStep1 == {"step2", "step3", "fallback", "fbconcat", "step4", "mux"}
InRunAfterStep2 == {"step3", "fallback", "fbconcat", "step4", "mux"}
\* the current run follows a successful run, and nothing outside the
\* pipeline touched the work area or the narration files since that run began
UndisturbedRerun == rerun /\ quiet

\* C1 (as stated): after one successful run, a second run against the
\* unmodified work directory invokes no encoder at all, the loudness analysis
\* and the final mux included.
C1_NoEncoderOnRerun == UndisturbedRerun => CallsOf(EncoderKinds) = {}

\* C1 (amended): on such a second run Steps 1-3 invoke no encoder (no pad,
\* silence, concat, crossfade or fallback call) and cannot fail; the mux is
\* invoked again by every run that reaches Step 4, and the loudness analysis
\* too when two-pass loudness is configured.
C1_RerunEncodesOnlyAtMux ==
    UndisturbedRerun =>
        /\ CallsOf(GeneratingKinds) = {}
        /\ pc = "failed" => (calls # << >> /\ calls[Len(calls)].kind \in {"analysis", "mux"})
        /\ pc = "done" => Cardinality(CallsOf({"mux"})) = 1
        /\ (pc \in {"mux", "done"} /\ two_pass) => Cardinality(CallsOf({"analysis"})) = 1

C1_Witness ==
    /\ UndisturbedRerun
    /\ pc = "done"
    /\ two_pass
    /\ Cardinality(CallsOf({"mux"})) = 1

\* C2: a run never rewrites, regenerates or deletes a work-area artifact that
\* existed when the run checked for it, whatever happened to the input it was
\* derived from; a generating encoder call is made only for an artifact the
\* check found absent (the fallback concat completes the build of a
\* video_only.mp4 that was absent at the check).
C2_ExistingArtifactsUntouched ==
    [][RunNext =>
        /\ \A a \in existedAtCheck' : work'[a] = work[a]
        /\ \A k \in 1..Len(NewCalls) :
              NewCalls[k].kind \in GeneratingKinds =>
                 /\ NewCalls[k].target \notin existedAtCheck'
                 /\ (NewCalls[k].kind = "fbconcat" \/ work[NewCalls[k].target] = Absent)]_vars

C2_Witness ==
    /\ pc = "done"
    /\ \E s \in Slides :
         /\ <<"padded", s>> \in existedAtCheck
         /\ wav[s] # Absent
         /\ work[<<"padded", s>>] # wav[s] + 2000
    /\ FullAudio \in existedAtCheck
    /\ VideoOnly \in existedAtCheck

C4_ListsFollowNotes ==
    pc \in InRunAfterStep1 =>
        /\ Len(slide_durations) = Len(notes)
        /\ Len(wav_files) = Len(notes)
        /\ \A i \in 1..Len(notes) :
              /\ wav_files[i][2] = notes[i].slide
              /\ wav_files[i][1] \in {"padded", "silence"}
              /\ wav_files[i][1] = "silence" => slide_durations[i] = 2000
              /\ wav_files[i][1] = "padded" => slide_durations[i] = work[wav_files[i]]

C4_Witness ==
    /\ pc = "step2"
    /\ Len(notes) = 2
    /\ notes[1].slide > notes[2].slide
    /\ wav_files[1][1] = "padded"
    /\ wav_files[2][1] = "silence"

\* the step of Step 1 that records the duration of a narrated slide
RecordsNarrated ==
    /\ pc = "step1"
    /\ Len(slide_durations') = Len(slide_durations) + 1
    /\ wav_files'[Len(wav_files')][1] = "padded"

\* C5 (as stated): in every run, first or resumed, the duration recorded for a
\* narrated slide is rawDuration + 1.0 s + 1.0 s of the slide's current
\* narration clip.
C5_DurationIsCurrentRawPlusPads ==
    [][RecordsNarrated =>
        slide_durations'[Len(slide_durations')] = wav[notes[idx].slide] + 1000 + 1000]_vars

\* C5 (amended): when the run generates the padded clip, the clip and the
\* recorded duration are rawDuration + 1.0 s + 1.0 s of the current narration
\* clip; when the padded clip already exists, the recorded duration is the
\* duration of that existing clip, which is left as it is.
C5_DurationIsPaddedClip ==
    [][RecordsNarrated =>
        LET padded_wav == <<"padded", notes[idx].slide>>
            dur == slide_durations'[Len(slide_durations')]
        IN  IF work[padded_wav] = Absent
            THEN /\ dur = wav[notes[idx].slide] + 1000 + 1000
                 /\ work'[padded_wav] = dur
            ELSE /\ dur = work[padded_wav]
                 /\ work'[padded_wav] = work[padded_wav]]_vars

C5_Witness ==
    /\ pc = "step2"
    /\ Len(notes) = 2
    /\ wav_files[1] \in existedAtCheck
    /\ wav_files[1][1] = "padded"
    /\ slide_durations[1] # wav[notes[1].slide] + 2000
    /\ wav_files[2] \notin existedAtCheck
    /\ wav_files[2][1] = "padded"
    /\ wav[notes[2].slide] = 3200
    /\ slide_durations[2] = 5200

\* C6 (as stated): whenever Step 2 has completed, full_audio.wav lasts the sum
\* of the per-slide durations computed in Step 1 of the same run.
C6_FullAudioIsSumOfDurations ==
    pc \in InRunAfterStep2 => work[FullAudio] = SeqSum(slide_durations)

\* C6 (amended): when Step 2 builds full_audio.wav in this run, the track lasts
\* the sum of the listed clips, in list order, which is the sum of the Step 1
\* durations when every listed silence clip has its full 2.0 s; when
\* full_audio.wav already exists it is reused with the duration it has.
C6_FullAudioIsSumWhenBuilt ==
    [][(pc = "step2" /\ pc' = "step3") =>
        LET clips == [k \in 1..Len(wav_files) |-> work[wav_files[k]]]
        IN  IF work[FullAudio] = Absent
            THEN /\ work'[FullAudio] = SeqSum(clips)
                 /\ (\A k \in 1..Len(wav_files) :
                        wav_files[k][1] = "silence" => clips[k] = 2000)
                       => work'[FullAudio] = SeqSum(slide_durations)
            ELSE work'[FullAudio] = work[FullAudio]]_vars

C6_Witness ==
    /\ pc = "step3"
    /\ Len(notes) = 2
    /\ FullAudio \notin existedAtCheck
    /\ wav_files[1][1] = "padded"
    /\ wav_files[2][1] = "silence"
    /\ work[FullAudio] = 5200 + 2000

XfadeAttempted == CallsOf({"xfade"}) # {}
Max(a, b) == IF a > b THEN a ELSE b
\* the timeline position before crossfade step k
PrevOffset(k) == IF k = 1 THEN 0 ELSE xfade_steps[k - 1].offset

\* C7: for N > 1 the offsets are offset_i = max(0.1, cumulative + duration[i] - T)
\* with cumulative starting at 0 and set to offset_i after each step; durations
\* [5.2, 2.0, 5.2] with T = 0.5 give 4.7 and 6.2; N-1 steps are emitted and only
\* the last is labelled as the final output.
C7_OffsetRecurrence ==
    (XfadeAttempted /\ Len(slide_durations) > 1) =>
        /\ Len(xfade_steps) = Len(slide_durations) - 1
        /\ \A k \in 1..Len(xfade_steps) :
              /\ xfade_steps[k].offset =
                    Max(100, PrevOffset(k) + slide_durations[k] - transition_dur)
              /\ xfade_steps[k].duration = transition_dur
              /\ (xfade_steps[k].out_label = <<"vout", 0>>) <=> (k = Len(xfade_steps))
              /\ k < Len(xfade_steps) => xfade_steps[k].out_label = <<"v", k>>
        /\ (slide_durations = <<5200, 2000, 5200>> /\ transition_dur = 500) =>
              (xfade_steps[1].offset = 4700 /\ xfade_steps[2].offset = 6200)

C7_Witness ==
    /\ XfadeAttempted
    /\ slide_durations = <<5200, 2000, 5200>>
    /\ transition_dur = 500
    /\ xfade_steps[1].offset = 4700
    /\ xfade_steps[2].offset = 6200
    /\ xfade_steps[2].out_label = <<"vout", 0>>

\* C8: every crossfade offset produced is at least 0.1 s, never zero or
\* negative, also when a slide is shorter than the transition.
C8_OffsetsClamped ==
    \A k \in 1..Len(xfade_steps) : xfade_steps[k].offset >= 100 /\ xfade_steps[k].offset > 0

C8_Witness ==
    /\ XfadeAttempted
    /\ Len(slide_durations) = 2
    /\ slide_durations[1] = 300
    /\ transition_dur = 500
    /\ xfade_steps[1].offset = 100

Unclamped ==
    \A k \in 1..Len(xfade_steps) :
        PrevOffset(k) + slide_durations[k] - transition_dur >= 100

\* C9: on the crossfade path with N > 1 and no clamping, the rendered length,
\* last offset plus last slide duration, is the sum of the slide durations
\* minus (N-1)*T; [5.2, 2.0, 5.2] with T = 0.5 renders 11.4 s.
C9_RenderedLength ==
    (XfadeAttempted /\ Len(slide_durations) > 1 /\ Unclamped) =>
        LET n == Len(slide_durations)
            rendered == xfade_steps[n - 1].offset + slide_durations[n]
        IN  /\ rendered = SeqSum(slide_durations) - (n - 1) * transition_dur
            /\ calls[Len(calls)] = Call("probe", VideoOnly, "ok") /\ Len(calls) = 2
                  => work[VideoOnly] = rendered
            /\ (slide_durations = <<5200, 2000, 5200>> /\ transition_dur = 500)
                  => rendered = 11400

C9_Witness ==
    /\ slide_durations = <<5200, 2000, 5200>>
    /\ transition_dur = 500
    /\ Unclamped
    /\ calls = <<Call("xfade", VideoOnly, "ok"), Call("probe", VideoOnly, "ok")>>
    /\ work[VideoOnly] = 11400

\* C10: one invocation of the builder attempts the crossfade encode exactly
\* once and never again; the hard-cut fallback is entered only after that
\* attempt failed, at most once, and never after a successful crossfade.
C10_CrossfadeOnceThenFallback ==
    LET xf == CallsOf({"xfade"})
        fb == CallsOf({"seg", "fbconcat"})
    IN  /\ Cardinality(xf) <= 1
        /\ (pc \in {"fallback", "fbconcat", "step4"}) => Cardinality(xf) = 1
        /\ \A j \in fb : \E k \in xf : k < j /\ calls[k].rc = "nonzero"
        /\ (pc \in {"fallback", "fbconcat"}) => \E k \in xf : calls[k].rc = "nonzero"
        /\ (\E k \in xf : calls[k].rc = "ok") => (fb = {} /\ pc = "step4")
        /\ Cardinality(CallsOf({"fbconcat"})) <= 1
        /\ Cardinality(CallsOf({"seg"})) <= Len(notes)

C10_Witness ==
    /\ pc = "step4"
    /\ Cardinality(CallsOf({"xfade"})) = 1
    /\ Cardinality(CallsOf({"fbconcat"})) = 1
    /\ Cardinality(CallsOf({"seg"})) = 2
    /\ Len(notes) = 3

\* C11: whenever the crossfade encoder call fails, by non-zero exit or by
\* timeout, the builder proceeds to the hard-cut fallback and the run is not
\* aborted by that failure.
C11_XfadeFailureFallsBack ==
    (calls # << >>
       /\ calls[Len(calls)].kind = "xfade"
       /\ calls[Len(calls)].rc \in Failures)
    => pc = "fallback"

\* the hard-cut fallback completes in this step (lines 388-393 return)
FallbackCompletes == pc = "fbconcat" /\ pc' = "step4"
\* every note's segment was rendered by the current run
AllSegmentsRendered == Cardinality(CallsOf({"seg"})) = Len(notes)

\* C12 (as stated): whenever the hard-cut fallback completes, from any state
\* of the work area, the video it produces has total duration equal to the
\* sum of the current run's slide durations.
C12_FallbackIsSumOfDurations ==
    [][FallbackCompletes => work'[VideoOnly] = SeqSum(slide_durations)]_vars

\* C12 (amended): whenever the hard-cut fallback completes, the video is the
\* concatenation without overlap of one segment per note, in notes order, so
\* its duration is the sum of the listed segments' durations; that sum is the
\* sum of the current run's slide durations when every note's segment was
\* rendered by the current run, while a seg_NN.mp4 that already exists is
\* listed with the duration it was rendered with.
C12_FallbackIsSumOfSegments ==
    [][FallbackCompletes =>
        /\ work'[VideoOnly] =
              SeqSum([k \in 1..Len(notes) |-> work[<<"seg", notes[k].slide>>]])
        /\ AllSegmentsRendered => work'[VideoOnly] = SeqSum(slide_durations)]_vars

C12_Witness ==
    /\ pc = "step4"
    /\ Len(notes) = 2
    /\ AllSegmentsRendered
    /\ slide_durations[1] # slide_durations[2]
    /\ work[VideoOnly] = SeqSum(slide_durations)
    /\ Cardinality(CallsOf({"fbconcat"})) = 1

\* the encoder calls that are made with check=True
FatalKinds == {"pad", "silence", "concat", "seg", "fbconcat", "mux"}

\* C13: a non-zero exit or timeout of the pad, silence, concat,
\* fallback-segment, fallback-concat or mux call aborts the run immediately:
\* the run is failed, and the failed call is the last process the run
\* invokes (it is not attempted again and no later stage is started).
C13_EncoderFailureIsFatal ==
    \A k \in 1..Len(calls) :
        (calls[k].kind \in FatalKinds /\ calls[k].rc \in Failures)
        => (k = Len(calls) /\ pc = "failed")

C13_Witness ==
    /\ pc = "failed"
    /\ Len(calls) > 3
    /\ calls[Len(calls)].kind = "fbconcat"
    /\ calls[Len(calls)].rc = "timeout"

\* C14: the audio concatenation is started only when every per-slide clip it
\* lists exists, the slideshow build (crossfade or fallback) only when
\* full_audio.wav exists, and the loudness analysis and the mux only when
\* both video_only.mp4 and full_audio.wav exist.
C14_StageOrdering ==
    [][\A k \in 1..Len(NewCalls) :
         /\ NewCalls[k].kind = "concat" =>
               \A i \in 1..Len(wav_files) : work[wav_files[i]] # Absent
         /\ NewCalls[k].kind \in {"xfade", "seg", "fbconcat"} =>
               work[FullAudio] # Absent
         /\ NewCalls[k].kind \in {"analysis", "mux"} =>
               /\ work[VideoOnly] # Absent
               /\ work[FullAudio] # Absent]_vars

C14_Witness ==
    /\ pc = "done"
    /\ Len(notes) = 2
    /\ Cardinality(CallsOf({"concat"})) = 1
    /\ Cardinality(CallsOf({"fbconcat"})) = 1
    /\ Cardinality(CallsOf({"mux"})) = 1

\* -c:a / -an / -f null of each ffmpeg command line
AudioCodecLossyConcat(kind) ==
    CASE kind \in {"pad", "silence"} -> "pcm_s16le"
      [] kind \in {"concat", "mux"} -> "aac"
      [] OTHER -> "none"
AudioCodec(kind) ==
    CASE kind \in {"pad", "silence", "concat"} -> "pcm_s16le"
      [] kind = "mux" -> "aac"
      [] OTHER -> "none"

\* -c:v of each ffmpeg command line
VideoCodec(kind) ==
    CASE kind \in {"xfade", "seg", "fbconcat"} -> "libx264"
      [] kind = "mux" -> "copy"
      [] OTHER -> "none"

LosslessAudio == {"pcm_s16le"}
LossyEncodes == {k \in 1..Len(calls) : AudioCodec(calls[k].kind) \notin LosslessAudio \cup {"none"}}

\* C15: on every successful run the only lossy audio encode is the AAC
\* encode of the mux, made once; the pad, silence and concat calls write
\* lossless PCM, the analysis and the video builds write no audio, and the
\* mux copies the video stream.
C15_SingleLossyEncode ==
    pc = "done" =>
        /\ Cardinality(LossyEncodes) = 1
        /\ \A k \in LossyEncodes :
              /\ calls[k].kind = "mux"
              /\ AudioCodec(calls[k].kind) = "aac"
              /\ VideoCodec(calls[k].kind) = "copy"
        /\ \A k \in CallsOf({"pad", "silence", "concat"}) :
              AudioCodec(calls[k].kind) \in LosslessAudio
        /\ \A k \in CallsOf({"analysis", "xfade", "seg", "fbconcat"}) :
              AudioCodec(calls[k].kind) = "none"

C15_Witness ==
    /\ pc = "done"
    /\ audio_filters = "two_pass"
    /\ CallsOf({"pad"}) # {}
    /\ CallsOf({"concat"}) # {}
    /\ CallsOf({"fbconcat"}) # {}
    /\ CallsOf({"analysis"}) # {}

\* key paths of a config, a section or a parameter of a section
Paths ==
    {<<s>> : s \in {"loudnorm", "limiter"}} \cup
    {<<s, k>> : s \in {"loudnorm", "limiter"}, k \in {"enabled", "two_pass", "intensity"}}
HasValue(m, p) ==
    /\ p[1] \in DOMAIN m
    /\ Len(p) = 2 => (IsObj(m[p[1]]) /\ p[2] \in DOMAIN m[p[1]].obj)
At(m, p) == IF Len(p) = 1 THEN m[p[1]] ELSE m[p[1]].obj[p[2]]
LeafAt(m, p) == HasValue(m, p) /\ ~IsObj(At(m, p))
\* the mapping has the leaf of the given layer's mapping at p
SameLeaf(m, layer, p) == LeafAt(m, p) /\ At(m, p) = At(layer, p)
\* the layer has a value at p, or a non-object at the key enclosing p
Cuts(layer, p) == HasValue(layer, p) \/ (Len(p) = 2 /\ LeafAt(layer, <<p[1]>>))

ObjOrEmpty(x) == IF IsObj(x) THEN x.obj ELSE EmptyDict
LangEntry ==
    IF "json" \in DOMAIN lang_config /\ IsObj(lang_config.json)
    THEN ObjOrEmpty(Get(lang_config.json.obj, Lang, Obj(EmptyDict)))
    ELSE EmptyDict
\* the language's audio_postprocessing object
LanguageLayer == ObjOrEmpty(Get(LangEntry, "audio_postprocessing", Obj(EmptyDict)))
\* the voice's audio_postprocessing object, when a voice is given
VoiceLayer ==
    IF voice_id = "" THEN EmptyDict
    ELSE ObjOrEmpty(Get(ObjOrEmpty(Get(ObjOrEmpty(Get(LangEntry, "voice_overrides", Obj(EmptyDict))),
                                       voice_id, Obj(EmptyDict))),
                        "audio_postprocessing", Obj(EmptyDict)))
Resolved == "returns" \in DOMAIN post_config

\* C16 (as stated): every leaf present in the voice override has the voice
\* value, every other leaf present in the language config has the language
\* value, and every remaining default leaf keeps its default.
C16_LeafPrecedence ==
    Resolved =>
        \A p \in Paths :
            IF LeafAt(VoiceLayer, p) THEN SameLeaf(post_config.returns, VoiceLayer, p)
            ELSE IF LeafAt(LanguageLayer, p) THEN SameLeaf(post_config.returns, LanguageLayer, p)
            ELSE LeafAt(DEFAULT_AUDIO_POSTPROCESSING, p) =>
                     SameLeaf(post_config.returns, DEFAULT_AUDIO_POSTPROCESSING, p)

\* C16 (amended): every leaf of the voice override has the voice value; a
\* leaf of the language config has the language value unless the voice
\* override has a value at its key path or a non-object at the enclosing
\* key; a default leaf keeps its default unless a later layer has a value at
\* its key path or a non-object at the enclosing key; and the resolved
\* config has no other leaves.
C16_LeafSurvival ==
    Resolved =>
        \A p \in Paths :
            LET voiceWins == LeafAt(VoiceLayer, p)
                languageWins == LeafAt(LanguageLayer, p) /\ ~Cuts(VoiceLayer, p)
                defaultStays == /\ LeafAt(DEFAULT_AUDIO_POSTPROCESSING, p)
                                /\ ~Cuts(LanguageLayer, p)
                                /\ ~Cuts(VoiceLayer, p)
            IN  /\ voiceWins => SameLeaf(post_config.returns, VoiceLayer, p)
                /\ languageWins => SameLeaf(post_config.returns, LanguageLayer, p)
                /\ defaultStays => SameLeaf(post_config.returns, DEFAULT_AUDIO_POSTPROCESSING, p)
                /\ LeafAt(post_config.returns, p) => (voiceWins \/ languageWins \/ defaultStays)

C16_Witness ==
    /\ Resolved
    /\ voice_id = "v1"
    /\ LeafAt(VoiceLayer, <<"loudnorm", "enabled">>)
    /\ SameLeaf(post_config.returns, VoiceLayer, <<"loudnorm", "enabled">>)
    /\ SameLeaf(post_config.returns, DEFAULT_AUDIO_POSTPROCESSING, <<"loudnorm", "two_pass">>)
    /\ LeafAt(LanguageLayer, <<"limiter">>)
    /\ SameLeaf(post_config.returns, LanguageLayer, <<"limiter">>)

\* C17: for every state of the configuration source (file missing, invalid
\* JSON, language key missing, top level not an object, language entry or
\* its audio_postprocessing / voice_overrides entries of the wrong shape)
\* load_audio_postprocess_config returns a configuration and raises no
\* error.
C17_ConfigNeverFails == post_config # Pending => Resolved

\* position of a stage in the fixed order
Rank(stage) ==
    CASE stage = "deesser" -> 1
      [] stage = "highpass" -> 2
      [] stage = "equalizer" -> 3
      [] stage = "loudnorm" -> 4
      [] stage = "alimiter" -> 5
      [] OTHER -> 0
Built == filters # << >>
Emits(stage) == \E k \in 1..Len(filters) : filters[k].stage = stage
ChainConfig == post_config.returns
WantDeesser ==
    /\ Enabled(Section(ChainConfig, "deesser"))
    /\ Num(Section(ChainConfig, "deesser"), "intensity", 0) > 0
WantHighpass ==
    /\ Enabled(Section(ChainConfig, "highpass"))
    /\ Num(Section(ChainConfig, "highpass"), "frequency", 80) > 0
WantPresence ==
    /\ Enabled(Section(ChainConfig, "presence_eq"))
    /\ Abs(Num(Section(ChainConfig, "presence_eq"), "gain_db", 0)) > GAIN_EPSILON
WantLoudness ==
    chain_args.loudnorm_override # NoOverride \/ Enabled(Section(ChainConfig, "loudnorm"))
WantLimiter == chain_args.include_limiter /\ Enabled(Section(ChainConfig, "limiter"))

LimiterBase == Num(Section(ChainConfig, "limiter"), "base_limit", 891)
LimiterIntensity == Num(Section(ChainConfig, "limiter"), "intensity", 1000)
UnitInterval == {0, 125, 250, 375, 500, 625, 750, 875, 891, 1000}

\* C19: for intensity and base_limit in [0, 1] the emitted limit is
\* base_limit + (1 - base_limit) * (1 - intensity) to three decimals, capped
\* at 1.0: it lies in [base_limit, 1.0], it is base_limit at intensity 1.0
\* (0.891 for the default base) and 1.0 at intensity 0.0, and a higher
\* intensity never gives a higher limit.
C19_LimiterCeiling ==
    \A k \in 1..Len(filters) :
        (/\ filters[k].stage = "alimiter"
         /\ LimiterIntensity >= 0 /\ LimiterIntensity <= 1000
         /\ LimiterBase >= 0 /\ LimiterBase <= 1000)
        => LET limit == filters[k].limit
               exact == LimiterBase * 1000 + (1000 - LimiterBase) * (1000 - LimiterIntensity)
           IN  /\ Abs(limit * 1000 - exact) <= 500
               /\ LimiterBase <= limit /\ limit <= 1000
               /\ LimiterIntensity = 1000 => limit = LimiterBase
               /\ LimiterIntensity = 0 => limit = 1000
               /\ \A i \in UnitInterval :
                     /\ i >= LimiterIntensity => LimiterLimit(LimiterBase, i) <= limit
                     /\ i <= LimiterIntensity => LimiterLimit(LimiterBase, i) >= limit

C19_Witness ==
    /\ Built
    /\ Emits("alimiter")
    /\ LimiterBase = 891
    /\ LimiterIntensity = 250
    /\ filters[Len(filters)].limit = 973

\* the analysis pass of this run failed or gave no usable statistics
AnalysisUnusable ==
    \/ \E k \in CallsOf({"analysis"}) : calls[k].rc \in Failures
    \/ stats \in {"absent", "unparsable", "incomplete"}

\* C20: the analysis pass is run iff two-pass loudness is configured;
\* whenever it fails (non-zero exit or timeout) or its statistics block is
\* absent, unparsable or incomplete, the single-pass chain is chosen and the
\* run goes on to the mux (only the mux itself can still fail the run); the
\* two-pass filter is used only when a statistics block was obtained.
C20_LoudnessRecovery ==
    /\ pc \in {"mux", "done"} => (two_pass <=> CallsOf({"analysis"}) # {})
    /\ AnalysisUnusable =>
          /\ audio_filters = "single"
          /\ pc \in {"mux", "done", "failed"}
          /\ pc = "failed" => calls[Len(calls)].kind = "mux"
    /\ audio_filters = "two_pass" => stats = "complete"

\* the chain in the state was built for the measured (two-pass) encode
TwoPassBuilt == Built /\ chain_args.caller = "build_two_pass_loudnorm_filter"

C25_LimiterOnlyInFinalEncode ==
    Built =>
        /\ chain_args.caller = "run_loudnorm_analysis" =>
              /\ ~Emits("alimiter")
              /\ \E k \in 1..Len(filters) :
                    /\ filters[k].stage = "loudnorm"
                    /\ filters[k].args.print_format = "json"
        /\ chain_args.caller \in {"mux_video_audio", "build_two_pass_loudnorm_filter"} =>
              (Emits("alimiter") <=> Enabled(Section(ChainConfig, "limiter")))

C25_Witness ==
    /\ Built
    /\ chain_args.caller = "run_loudnorm_analysis"
    /\ Enabled(Section(ChainConfig, "limiter"))
    /\ Len(filters) = 4
    /\ filters[4].stage = "loudnorm"

\* the run has ended with exit code 0 and nothing is missing
CompleteSuccess ==
    ExitCode = 0 =>
        /\ missing_wav = << >>
        /\ Len(wav_files) = Len(notes)
        /\ Len(slide_durations) = Len(notes)
        /\ \A k \in 1..Len(wav_files) : work[wav_files[k]] # Absent
        /\ work[FullAudio] # Absent
        /\ work[VideoOnly] # Absent
        /\ \E k \in CallsOf({"mux"}) : calls[k].rc = "ok"
        /\ Probeable(output)
        /\ \A k \in 1..Len(calls) :
              calls[k].rc \in Failures =>
                 (calls[k].kind \in {"xfade", "analysis"} /\ calls[k].rc = "nonzero")
\* a failed preflight or a failed fatal call has ended the run, non-zero
FatalIsNonZero ==
    (missing_wav # << >> \/ \E k \in CallsOf(FatalKinds) : calls[k].rc \in Failures)
        => ExitCode = 1

\* C22: a run ends with exit code 0 only if preflight passed, every note got
\* a clip that is present, full_audio.wav and video_only.mp4 are present and
\* the mux of this run succeeded and left a readable output; a failed
\* preflight or a failed fatal call ends the run with a non-zero exit code,
\* and the only failed calls of a successful run are a recovered crossfade
\* or analysis.
C22_NoDegradedSuccess == [][RunNext => (CompleteSuccess' /\ FatalIsNonZero')]_vars

C22_Witness ==
    /\ ExitCode = 1
    /\ missing_wav = << >>
    /\ Len(notes) = 2
    /\ \E k \in CallsOf({"mux"}) : calls[k].rc = "nonzero"
    /\ \E k \in CallsOf({"xfade"}) : calls[k].rc = "nonzero"

\* --------------------------------------------------- preflight on its own
\* preflight_audio_files applied to any notes, narration files and legacy
\* MP3s, before any stage has run
InitPreflight ==
    /\ notes \in NoteLists(MaxNotes)
    /\ wav \in [Slides -> {Absent} \cup InitialRawDurs]
    /\ mp3 \in [Slides -> BOOLEAN]
    /\ work = [a \in Artifacts |-> Absent]
    /\ output = Absent
    /\ two_pass = FALSE
    /\ transition_dur = TRANSITION_DURATION
    /\ pc = "preflight"
    /\ idx = 1
    /\ slide_durations = << >>
    /\ wav_files = << >>
    /\ missing_wav = << >>
    /\ legacy_mp3_present = << >>
    /\ xfade_steps = << >>
    /\ calls = << >>
    /\ existedAtCheck = {}
    /\ runs = 1
    /\ envChanges = 0
    /\ audio_filters = "none"
    /\ quiet = TRUE
    /\ rerun = FALSE
    /\ stats = "none"
    /\ tts = [pc |-> "off"]
    /\ procs = << >>
    /\ PostIdle

NextPreflight == Preflight

SpecPreflight == InitPreflight /\ [][NextPreflight]_vars

\* ---- C24
Reported == {missing_wav[k] : k \in 1..Len(missing_wav)}
LegacyReported == {legacy_mp3_present[k] : k \in 1..Len(legacy_mp3_present)}
PreflightReturned == pc \in {"step1", "failed"}

\* the report of preflight over the notes that count as carrying text
PreflightReport(HasText(_)) ==
    LET lacking == {i \in 1..Len(notes) : HasText(notes[i]) /\ wav[notes[i].slide] = Absent}
        slides  == {notes[i].slide : i \in lacking}
    IN  /\ (pc = "step1") <=> (lacking = {})
        /\ Reported = slides
        /\ Len(missing_wav) = Cardinality(lacking)
        /\ LegacyReported = {s \in slides : mp3[s]}
        /\ \A i \in 1..Len(notes) :
             notes[i].text = << >> /\ notes[i].slide \in Reported
                => \E j \in lacking : notes[j].slide = notes[i].slide

NonEmptyText(note) == note.text # << >>

\* C24 as stated: preflight passes iff every note whose text is non-empty has
\* a WAV; the missing report is exactly all such notes lacking a WAV, the
\* legacy list exactly the missing slides that have an MP3, and a note with
\* empty text is never the reason for a report.
C24_ReportOnNonEmptyText == PreflightReturned => PreflightReport(NonEmptyText)

\* C24 amended: the same with "non-empty" read as "non-empty once leading and
\* trailing whitespace is stripped".
C24_ReportOnStrippedText == PreflightReturned => PreflightReport(_is_narrated_slide)

\* preflight failed on two narrated notes without a WAV, one of which has a
\* legacy MP3
C24_Witness ==
    /\ pc = "failed"
    /\ Len(missing_wav) = 2
    /\ Cardinality(Reported) = 2
    /\ Cardinality(LegacyReported) = 1

\* ---- C29
\* a Step 1 iteration ends by listing the clip of the note at idx
SlideGiven == pc = "step1" /\ Len(wav_files') = Len(wav_files) + 1
GivenClip == wav_files'[Len(wav_files')]
GivenDuration == slide_durations'[Len(slide_durations')]

\* C29 as stated: Step 1 gives the slide a padded clip iff its WAV exists when
\* it is processed, whatever the note text, and otherwise a silence clip that
\* lasts 2.0 s; in an undisturbed run every note with non-empty text gets a
\* padded clip.
C29_ChoiceOnNonEmptyText ==
    [][SlideGiven =>
        LET sn == notes[idx].slide
        IN  /\ (GivenClip = <<"padded", sn>>) <=> (wav[sn] # Absent)
            /\ (GivenClip # <<"padded", sn>>) =>
                  /\ GivenClip = <<"silence", sn>>
                  /\ work'[GivenClip] = SILENT_SLIDE_DUR
            /\ (quiet /\ notes[idx].text # << >>) => GivenClip = <<"padded", sn>>]_vars

\* C29 amended: the choice follows the presence of the WAV alone; a silent
\* slide is recorded with 2.0 s, its clip rendered with 2.0 s when absent and
\* kept as found when present; in an undisturbed run every note whose
\* stripped text is non-empty gets a padded clip.
C29_ChoiceOnStrippedText ==
    [][SlideGiven =>
        LET sn == notes[idx].slide
        IN  /\ (GivenClip = <<"padded", sn>>) <=> (wav[sn] # Absent)
            /\ (GivenClip # <<"padded", sn>>) =>
                  /\ GivenClip = <<"silence", sn>>
                  /\ GivenDuration = SILENT_SLIDE_DUR
                  /\ work'[GivenClip] =
                        IF work[GivenClip] = Absent THEN SILENT_SLIDE_DUR ELSE work[GivenClip]
            /\ (quiet /\ _is_narrated_slide(notes[idx])) => GivenClip = <<"padded", sn>>]_vars

\* an undisturbed run gave a note without text a padded clip, its WAV being
\* there, and a whitespace-only note a silence clip
C29_Witness ==
    /\ pc = "step2"
    /\ quiet
    /\ Len(notes) = 2
    /\ notes[1].text = << >>
    /\ wav_files[1] = <<"padded", notes[1].slide>>
    /\ notes[2].text = <<" ">>
    /\ wav_files[2] = <<"silence", notes[2].slide>>
    /\ slide_durations[2] = SILENT_SLIDE_DUR

\* ---- C26
\* what an interrupted write leaves: a truncated WAV or an unreadable MP4
Residues == {PartialDur, Corrupt}

\* the work-area file whose existence the run checks next
StageArtifact ==
    CASE pc = "step1" ->
           IF wav[notes[idx].slide] # Absent THEN <<"padded", notes[idx].slide>>
           ELSE <<"silence", notes[idx].slide>>
      [] pc = "step2" -> FullAudio
      [] pc = "step3" -> VideoOnly
      [] pc = "fallback" -> <<"seg", notes[idx].slide>>

AtStageCheck == pc \in {"step1", "step2", "step3", "fallback"}

\* the file found at the check goes downstream as it is
UsedDownstream(a) ==
    CASE a[1] = "padded" ->
           /\ wav_files' = Append(wav_files, a)
           /\ slide_durations' = Append(slide_durations, work[a])
      [] a[1] = "silence" -> wav_files' = Append(wav_files, a)
      [] a = FullAudio -> pc' = "step3"
      [] a = VideoOnly ->
           /\ \E k \in 1..Len(NewCalls) :
                NewCalls[k].kind = "probe" /\ NewCalls[k].target = a
           /\ pc' = IF Probeable(work[a]) THEN "step4" ELSE "failed"
      [] a[1] = "seg" ->
           /\ pc' \in {"fallback", "fbconcat"}
           /\ \E k \in 1..Len(SegmentList) : SegmentList[k] = a

\* C26: a run that comes to the existence check of an artifact and finds the
\* residue of an interrupted write there treats the stage as complete: it
\* starts no encoder for the artifact, leaves the file as it is and hands it
\* to the following stages.
C26_ResidueTreatedAsComplete ==
    [][(RunNext /\ AtStageCheck /\ work[StageArtifact] \in Residues) =>
          /\ StageArtifact \in existedAtCheck'
          /\ work' = work
          /\ \A k \in 1..Len(NewCalls) : NewCalls[k].kind \notin GeneratingKinds
          /\ UsedDownstream(StageArtifact)]_vars

\* the second run took the truncated padded clip the first run's failed
\* encode left, and recorded its length as the slide duration
C26_Witness ==
    /\ runs = 2
    /\ pc = "step2"
    /\ \E s \in Slides :
         /\ work[<<"padded", s>>] = PartialDur
         /\ <<"padded", s>> \in existedAtCheck
         /\ wav_files[Len(wav_files)] = <<"padded", s>>
         /\ slide_durations[Len(slide_durations)] = PartialDur
    /\ CallsOf(GeneratingKinds) = {}

\* ---- C28
TracksBuilt == pc \in {"step4", "mux", "done"}
CrossfadePath == \E k \in CallsOf({"xfade"}) : calls[k].rc = "ok"
FallbackPath == \E k \in CallsOf({"fbconcat"}) : calls[k].rc = "ok"
Overlap == (Len(slide_durations) - 1) * transition_dur
\* start of the picture and of the audio clip of the k-th slide, k from 0
PictureStart(k) == IF k = 0 THEN 0 ELSE xfade_steps[k].offset
AudioStart(k) == SeqSum(SubSeq(slide_durations, 1, k))

TrackRelation ==
    /\ (CrossfadePath /\ Len(slide_durations) > 1) =>
          /\ work[VideoOnly] = work[FullAudio] - Overlap
          /\ \A k \in 0..(Len(slide_durations) - 1) :
                PictureStart(k) = AudioStart(k) - k * transition_dur
          /\ pc = "done" => output = work[FullAudio] - Overlap
    /\ (FallbackPath \/ (CrossfadePath /\ Len(slide_durations) = 1)) =>
          /\ work[VideoOnly] = work[FullAudio]
          /\ pc = "done" => output = work[FullAudio]
    /\ (CrossfadePath \/ FallbackPath) =>
          ((work[VideoOnly] = work[FullAudio])
              <=> (Len(slide_durations) = 1 \/ FallbackPath))

\* C28 as stated: on the crossfade path with N > 1 the video-only track is
\* exactly (N-1)*T shorter than the audio track, the mux drops the last
\* (N-1)*T of audio, and the picture of slide i starts i*T before its audio
\* clip; the tracks are equally long only for N = 1 or on the fallback path.
C28_TrackRelationAlways == [][RunNext => (TracksBuilt' => TrackRelation')]_vars

\* C28 amended: the same for a run that starts from an empty work area with
\* the audio directory unchanged during the run.
C28_TrackRelationFromEmptyWorkArea == (TracksBuilt /\ runs = 1 /\ quiet) => TrackRelation

\* a first run over two slides muxed 7.2 s of audio with a crossfaded video
\* of 6.7 s
C28_Witness ==
    /\ pc = "done"
    /\ runs = 1
    /\ quiet
    /\ CrossfadePath
    /\ slide_durations = <<5200, 2000>>
    /\ work[FullAudio] = 7200
    /\ work[VideoOnly] = 6700
    /\ output = 6700
    /\ xfade_steps[1].offset = 4700

\* ------------------------------------------------------- synthesize_tts.py
\* bounds of the synthesis script's runs and retry settings
MaxTtsRuns == 2
MaxApiRetries == 2
MaxSlideRetries == 1

\* seconds in thousandths
DEFAULT_MIN_WAV_DURATION_SEC == 350
DEFAULT_RETRYABLE_STATUSES == {429, 500, 502, 503, 504}

\* what a completed synthesis can write: a header without frames, a clip
\* shorter than the minimum, a full clip
SynthesizedDurs == {0, 100, 1200}

\* an exception of synthesize_slide as _is_retryable_api_error sees it: a
\* TimeoutError or not, the status code extracted (0: none), a transient
\* marker in its class name or message or not
Excs == [timeout : BOOLEAN, status : {0, 400, 429}, marker : BOOLEAN]

NoExc == [none |-> TRUE]

_is_retryable_api_error(exc, retryable_statuses) ==
    IF exc.timeout THEN TRUE
    ELSE IF exc.status # 0 /\ exc.status \in retryable_statuses THEN TRUE
    ELSE exc.marker

\* _validate_wav on the file at the slide's path
_validate_wav(v, min_duration_sec) ==
    IF v = Absent THEN FALSE
    ELSE IF v <= 0 THEN FALSE
    ELSE IF v < min_duration_sec THEN FALSE
    ELSE TRUE

\* line 345
ValidationAttemptsDoubled(slide_max_retries) == 2 * slide_max_retries + 2
ValidationAttempts(slide_max_retries) == slide_max_retries + 1

\* the synthesis script between runs, with the retry settings of its
\* environment (lines 438 and 442: at least 1 and at least 0)
TtsIdle(api_max_retries, slide_max_retries) ==
    [pc |-> "idle",
     api_max_retries |-> api_max_retries,
     slide_max_retries |-> slide_max_retries,
     runs |-> 0,
     idx |-> 1,
     validation_attempt |-> 0,
     api_attempt |-> 0,
     api_calls |-> 0,
     last_written |-> Absent,
     last_exc |-> NoExc,
     returned |-> "none",
     failures |-> << >>,
     prev_failures |-> {},
     skipped |-> {},
     validated |-> {}]

InitTts ==
    /\ notes \in NoteLists(MaxNotes)
    /\ wav = [s \in Slides |-> Absent]
    /\ work = [a \in Artifacts |-> Absent]
    /\ output = Absent
    /\ two_pass = FALSE
    /\ transition_dur = TRANSITION_DURATION
    /\ stats = "none"
    /\ PostIdle
    /\ InitRun
    /\ mp3 = [s \in Slides |-> FALSE]
    /\ legacy_mp3_present = << >>
    /\ procs = << >>
    /\ \E a \in 1..MaxApiRetries, r \in 0..MaxSlideRetries : tts = TtsIdle(a, r)

TtsFrame == UNCHANGED <<notes, work, output, two_pass, transition_dur, pc, idx,
                        slide_durations, wav_files, missing_wav, xfade_steps,
                        calls, existedAtCheck, runs, envChanges, audio_filters,
                        quiet, rerun, stats, postVars, mp3, legacy_mp3_present,
                        procs>>

FailedSlides(failures) == {failures[k] : k \in 1..Len(failures)}

\* main, lines 410-463: a run of the script starts
TtsStartRun ==
    /\ tts.pc \in {"idle", "done", "failed"}
    /\ tts.runs < MaxTtsRuns
    /\ tts' = [tts EXCEPT !.pc = "loop", !.runs = @ + 1, !.idx = 1,
                          !.prev_failures = FailedSlides(tts.failures),
                          !.failures = << >>, !.skipped = {},
                          !.returned = "none"]
    /\ UNCHANGED wav
    /\ TtsFrame

\* lines 471-473: no text after strip(), the slide is left silent
TtsSilentSlide ==
    /\ tts.pc = "loop"
    /\ tts.idx <= Len(notes)
    /\ ~_is_narrated_slide(notes[tts.idx])
    /\ tts' = [tts EXCEPT !.idx = @ + 1]
    /\ UNCHANGED wav
    /\ TtsFrame

\* lines 475-477: the WAV exists, "[skip] already exists"
TtsSkipExisting ==
    /\ tts.pc = "loop"
    /\ tts.idx <= Len(notes)
    /\ _is_narrated_slide(notes[tts.idx])
    /\ wav[notes[tts.idx].slide] # Absent
    /\ tts' = [tts EXCEPT !.idx = @ + 1,
                          !.skipped = @ \cup {notes[tts.idx].slide}]
    /\ UNCHANGED wav
    /\ TtsFrame

\* lines 479-480 and 345-346: synthesize_with_retries is entered
TtsSynthesize ==
    /\ tts.pc = "loop"
    /\ tts.idx <= Len(notes)
    /\ _is_narrated_slide(notes[tts.idx])
    /\ wav[notes[tts.idx].slide] = Absent
    /\ tts' = [tts EXCEPT !.pc = "unlink", !.validation_attempt = 1,
                          !.api_attempt = 0, !.api_calls = 0,
                          !.last_written = Absent, !.last_exc = NoExc,
                          !.returned = "none"]
    /\ UNCHANGED wav
    /\ TtsFrame

\* lines 347-350: a validation attempt starts by removing the file, and the
\* API attempts start over
Unlink ==
    /\ tts.pc = "unlink"
    /\ wav' = [wav EXCEPT ![notes[tts.idx].slide] = Absent]
    /\ tts' = [tts EXCEPT !.pc = "api", !.api_attempt = 1,
                          !.validated = @ \ {notes[tts.idx].slide}]
    /\ TtsFrame

\* lines 351-361: synthesize_slide returns, the WAV is written
ApiSuccess ==
    /\ tts.pc = "api"
    /\ \E d \in SynthesizedDurs :
         /\ wav' = [wav EXCEPT ![notes[tts.idx].slide] = d]
         /\ tts' = [tts EXCEPT !.pc = "validate", !.api_calls = @ + 1,
                               !.last_written = d]
    /\ TtsFrame

\* lines 362-378: a retryable error with attempts left, sleep and go on
ApiRetry ==
    /\ tts.pc = "api"
    /\ \E exc \in Excs :
         /\ _is_retryable_api_error(exc, DEFAULT_RETRYABLE_STATUSES)
         /\ tts.api_attempt < tts.api_max_retries
         /\ tts' = [tts EXCEPT !.api_attempt = @ + 1, !.api_calls = @ + 1,
                               !.last_exc = exc]
    /\ UNCHANGED wav
    /\ TtsFrame

\* lines 380-387 and 498-501: a non-retryable error, or a retryable one at
\* the last attempt: synthesize_with_retries returns False, main records
\* the failure
ApiGiveUp ==
    /\ tts.pc = "api"
    /\ \E exc \in Excs :
         /\ ~(/\ _is_retryable_api_error(exc, DEFAULT_RETRYABLE_STATUSES)
              /\ tts.api_attempt < tts.api_max_retries)
         /\ tts' = [tts EXCEPT !.pc = "loop", !.idx = @ + 1, !.api_calls = @ + 1,
                               !.last_exc = exc,
                               !.returned =
                                   IF _is_retryable_api_error(exc, DEFAULT_RETRYABLE_STATUSES)
                                   THEN "retry exhausted" ELSE "non-retryable",
                               !.failures = Append(@, notes[tts.idx].slide)]
    /\ UNCHANGED wav
    /\ TtsFrame

\* lines 389-391 and 496-497: the file passes _validate_wav
ValidationPassed ==
    /\ tts.pc = "validate"
    /\ _validate_wav(wav[notes[tts.idx].slide], DEFAULT_MIN_WAV_DURATION_SEC)
    /\ tts' = [tts EXCEPT !.pc = "loop", !.idx = @ + 1, !.returned = "ok",
                          !.validated = @ \cup {notes[tts.idx].slide}]
    /\ UNCHANGED wav
    /\ TtsFrame

\* lines 393-398: validation failed with attempts left
ValidationRetry ==
    /\ tts.pc = "validate"
    /\ ~_validate_wav(wav[notes[tts.idx].slide], DEFAULT_MIN_WAV_DURATION_SEC)
    /\ tts.validation_attempt < ValidationAttempts(tts.slide_max_retries)
    /\ tts' = [tts EXCEPT !.pc = "unlink", !.validation_attempt = @ + 1]
    /\ UNCHANGED wav
    /\ TtsFrame

\* lines 400-403 and 498-501: validation failed at the last attempt; the
\* file stays where it was written
ValidationExhausted ==
    /\ tts.pc = "validate"
    /\ ~_validate_wav(wav[notes[tts.idx].slide], DEFAULT_MIN_WAV_DURATION_SEC)
    /\ tts.validation_attempt >= ValidationAttempts(tts.slide_max_retries)
    /\ tts' = [tts EXCEPT !.pc = "loop", !.idx = @ + 1,
                          !.returned = "validation failed",
                          !.failures = Append(@, notes[tts.idx].slide)]
    /\ UNCHANGED wav
    /\ TtsFrame

\* lines 503-513: exit 1 with failures, 0 without
TtsExit ==
    /\ tts.pc = "loop"
    /\ tts.idx > Len(notes)
    /\ tts' = [tts EXCEPT !.pc = IF tts.failures = << >> THEN "done" ELSE "failed"]
    /\ UNCHANGED wav
    /\ TtsFrame

NextTts ==
    \/ TtsStartRun
    \/ TtsSilentSlide
    \/ TtsSkipExisting
    \/ TtsSynthesize
    \/ Unlink
    \/ ApiSuccess
    \/ ApiRetry
    \/ ApiGiveUp
    \/ ValidationPassed
    \/ ValidationRetry
    \/ ValidationExhausted
    \/ TtsExit

SpecTts == InitTts /\ [][NextTts]_vars

\* ---- C27
\* C27: a slide is skipped as "already exists" only if the WAV found was
\* produced by an attempt that passed validation, and a slide reported as
\* failed by one run is not skipped by the next run.
C27_SkipOnlyValidated ==
    (tts.pc # "off") =>
        /\ tts.skipped \subseteq tts.validated
        /\ tts.skipped \cap tts.prev_failures = {}

\* ---- C30
InRetries == tts.pc \in {"unlink", "api", "validate"}

\* what is left of the two loops, counted in steps
RetryRank ==
    LET A == tts.api_max_retries
        left == ValidationAttempts(tts.slide_max_retries) - tts.validation_attempt
        here == CASE tts.pc = "unlink" -> 2 * A + 1
                  [] tts.pc = "api" -> 2 * (A - tts.api_attempt) + 2
                  [] tts.pc = "validate" -> 1
    IN  IF InRetries THEN left * (2 * A + 2) + here ELSE 0

ApiError == tts.pc = "api" /\ tts'.api_calls = tts.api_calls + 1 /\ tts'.pc # "validate"
NonRetryable(exc) ==
    /\ ~exc.timeout
    /\ exc.status \notin {429, 500, 502, 503, 504}
    /\ ~exc.marker

\* C30: with api_max_retries >= 1 and slide_max_retries >= 0 a call of
\* synthesize_with_retries ends (every step of its loops lowers a
\* non-negative rank), makes at most (slide_max_retries + 1) *
\* api_max_retries API calls, returns failure at once on the first
\* non-retryable API error and makes no call after returning, starts each
\* validation attempt with API attempt 1, and returns success only when
\* the file the last attempt wrote passes validation.
C30_RetryBound ==
    /\ [](/\ tts.api_max_retries >= 1 /\ tts.slide_max_retries >= 0
          /\ RetryRank >= 0
          /\ tts.api_calls <= (tts.slide_max_retries + 1) * tts.api_max_retries
          /\ tts.api_attempt <= tts.api_max_retries)
    /\ [][/\ InRetries => RetryRank' < RetryRank
          /\ (ApiError /\ NonRetryable(tts'.last_exc)) =>
                /\ tts'.pc = "loop"
                /\ tts'.returned = "non-retryable"
                /\ tts'.failures = Append(tts.failures, notes[tts.idx].slide)
          /\ (~InRetries /\ ~InRetries') => tts'.api_calls = tts.api_calls
          /\ (tts.pc = "unlink" /\ tts'.pc = "api") => tts'.api_attempt = 1
          /\ (InRetries /\ tts'.returned = "ok") =>
                /\ wav'[notes[tts.idx].slide] = tts.last_written
                /\ tts.last_written >= DEFAULT_MIN_WAV_DURATION_SEC
                /\ tts.api_calls >= 1]_vars

\* a call that used every API attempt of both validation attempts and
\* succeeded on the last one
C30_Witness ==
    /\ tts.pc = "loop"
    /\ tts.returned = "ok"
    /\ tts.api_max_retries = 2
    /\ tts.slide_max_retries = 1
    /\ tts.api_calls = 4
    /\ tts.validation_attempt = 2
    /\ tts.api_attempt = 2

\* --------------------------------- two runs of main over one work area
\* Each run is a process of its own; nothing in main or in the encoder
\* calls takes a lock, and ffmpeg writes its output file in place, so the
\* file is present from the start of the encode and complete at its end.
\* Encoder calls succeed here: failures are the subject of Spec.
Procs == {1, 2}
NoArtifact == <<"none", 0>>

ProcIdle ==
    [pc |-> "idle", idx |-> 1, slide_durations |-> << >>, wav_files |-> << >>,
     writing |-> NoArtifact, pending |-> Absent, raced |-> FALSE, used |-> {}]

InitConcurrent ==
    /\ notes \in NoteLists(MaxNotes)
    /\ wav \in [Slides -> {Absent} \cup InitialRawDurs]
    /\ work = [a \in Artifacts |-> Absent]
    /\ output = Absent
    /\ two_pass = FALSE
    /\ transition_dur = TRANSITION_DURATION
    /\ stats = "none"
    /\ PostIdle
    /\ InitRun
    /\ mp3 = [s \in Slides |-> FALSE]
    /\ legacy_mp3_present = << >>
    /\ tts = [pc |-> "off"]
    /\ procs = [p \in Procs |-> ProcIdle]

ConcurrentFrame ==
    UNCHANGED <<notes, wav, two_pass, transition_dur, pc, idx, slide_durations,
                wav_files, missing_wav, xfade_steps, calls, existedAtCheck, runs,
                envChanges, audio_filters, quiet, rerun, stats, postVars, mp3,
                legacy_mp3_present, tts>>

\* another run's encoder has created the file and not finished it
Unfinished(a, p) == \E q \in Procs \ {p} : procs[q].writing = a

\* the work-area file the run deals with next (lines 473-503)
ProcArtifact(p) ==
    LET pr == procs[p]
    IN  CASE pr.pc = "step1" ->
               IF AudioExists(notes[pr.idx].slide, wav)
               THEN <<"padded", notes[pr.idx].slide>>
               ELSE <<"silence", notes[pr.idx].slide>>
          [] pr.pc = "step2" -> FullAudio
          [] pr.pc = "step3" -> VideoOnly

\* the work-area files the encoder of that stage reads
ProcInputs(p) ==
    LET pr == procs[p]
    IN  IF pr.pc = "step2" THEN {pr.wav_files[k] : k \in 1..Len(pr.wav_files)} ELSE {}

\* what the encoder of that stage renders
ProcValue(p) ==
    LET pr == procs[p]
    IN  CASE pr.pc = "step1" ->
               IF AudioExists(notes[pr.idx].slide, wav)
               THEN PaddedDuration(wav[notes[pr.idx].slide])
               ELSE SILENT_SLIDE_DUR
          [] pr.pc = "step2" -> ConcatDuration(pr.wav_files, work)
          [] pr.pc = "step3" ->
               RenderedLength(pr.slide_durations,
                              XfadeGraph(pr.slide_durations, transition_dur))

\* the run's state after the stage of artifact a, whose probe gave dur
ProcAdvance(pr, a, dur) ==
    CASE pr.pc = "step1" ->
           [pr EXCEPT !.pc = IF pr.idx = Len(notes) THEN "step2" ELSE "step1",
                      !.idx = @ + 1,
                      !.slide_durations =
                          Append(@, IF a[1] = "padded" THEN dur ELSE SILENT_SLIDE_DUR),
                      !.wav_files = Append(@, a)]
      [] pr.pc = "step2" -> [pr EXCEPT !.pc = "step3"]
      [] pr.pc = "step3" -> [pr EXCEPT !.pc = "mux"]

InStage(p) == procs[p].pc \in {"step1", "step2", "step3"} /\ procs[p].writing = NoArtifact

\* lines 460-462: a run starts and passes or fails preflight
ProcStart(p) ==
    /\ procs[p].pc = "idle"
    /\ procs' = [procs EXCEPT ![p].pc = PreflightVerdict(MissingWav(notes, wav))]
    /\ UNCHANGED <<work, output>>
    /\ ConcurrentFrame

\* the file is absent: the encoder is started and creates it
ProcBeginWrite(p) ==
    /\ InStage(p)
    /\ ~Exists(ProcArtifact(p), work)
    /\ work' = [work EXCEPT ![ProcArtifact(p)] = PartialDur]
    /\ procs' = [procs EXCEPT ![p].writing = ProcArtifact(p),
                              ![p].pending = ProcValue(p),
                              ![p].used = @ \cup {f \in ProcInputs(p) : Unfinished(f, p)}]
    /\ UNCHANGED output
    /\ ConcurrentFrame

\* the encoder ends, the file is complete, its duration is read
ProcEndWrite(p) ==
    /\ procs[p].writing \in Artifacts
    /\ work' = [work EXCEPT ![procs[p].writing] = procs[p].pending]
    /\ procs' = [procs EXCEPT ![p] =
                    [ProcAdvance(procs[p], procs[p].writing, procs[p].pending)
                        EXCEPT !.writing = NoArtifact]]
    /\ UNCHANGED output
    /\ ConcurrentFrame

\* the file is present: the stage is skipped; a padded clip, full_audio.wav
\* and video_only.mp4 are probed, a silence clip is only listed
ProcReuse(p) ==
    /\ InStage(p)
    /\ Exists(ProcArtifact(p), work)
    /\ LET a == ProcArtifact(p)
           probed == a[1] # "silence"
       IN  procs' = [procs EXCEPT ![p] =
                        [ProcAdvance(procs[p], a, work[a])
                            EXCEPT !.used = IF probed /\ Unfinished(a, p)
                                            THEN @ \cup {a} ELSE @]]
    /\ UNCHANGED <<work, output>>
    /\ ConcurrentFrame

\* get_duration on a file another run is still writing may find no
\* duration in it and raise
ProcProbeFails(p) ==
    /\ InStage(p)
    /\ Exists(ProcArtifact(p), work)
    /\ ProcArtifact(p)[1] # "silence"
    /\ Unfinished(ProcArtifact(p), p)
    /\ procs' = [procs EXCEPT ![p].pc = "failed",
                              ![p].used = @ \cup {ProcArtifact(p)}]
    /\ UNCHANGED <<work, output>>
    /\ ConcurrentFrame

\* lines 423-432: the mux starts on the two tracks as they are, and writes
\* the output in place; there is no existence check
ProcMuxBegin(p) ==
    /\ procs[p].pc = "mux"
    /\ procs[p].writing = NoArtifact
    /\ output' = PartialDur
    /\ procs' = [q \in Procs |->
                    IF q = p
                    THEN [procs[p] EXCEPT
                            !.writing = Output,
                            !.pending = Min(work[VideoOnly], work[FullAudio]),
                            !.raced = Unfinished(Output, p),
                            !.used = @ \cup {f \in {VideoOnly, FullAudio} : Unfinished(f, p)}]
                    ELSE [procs[q] EXCEPT !.raced = @ \/ procs[q].writing = Output]]
    /\ UNCHANGED work
    /\ ConcurrentFrame

\* the mux ends; two encoders that wrote the output at the same time leave
\* either one's file or a mix of both
ProcMuxEnd(p) ==
    /\ procs[p].writing = Output
    /\ output' \in (IF procs[p].raced THEN {procs[p].pending, Corrupt}
                    ELSE {procs[p].pending})
    /\ procs' = [procs EXCEPT ![p].writing = NoArtifact, ![p].pc = "done"]
    /\ UNCHANGED work
    /\ ConcurrentFrame

NextConcurrent ==
    \E p \in Procs :
        \/ ProcStart(p)
        \/ ProcBeginWrite(p)
        \/ ProcEndWrite(p)
        \/ ProcReuse(p)
        \/ ProcProbeFails(p)
        \/ ProcMuxBegin(p)
        \/ ProcMuxEnd(p)

SpecConcurrent == InitConcurrent /\ [][NextConcurrent]_vars

\* ---- C23
\* what one run after the other leaves
SequentialDurations ==
    [k \in 1..Len(notes) |->
        IF wav[notes[k].slide] # Absent THEN PaddedDuration(wav[notes[k].slide])
        ELSE SILENT_SLIDE_DUR]
SequentialAudio == SeqSum(SequentialDurations)
SequentialVideo ==
    RenderedLength(SequentialDurations, XfadeGraph(SequentialDurations, transition_dur))

\* C23: two runs interleaved over one work area, nothing deleting
\* artifacts: no run probes, concatenates or muxes a file the other run has
\* created and not finished, and when both have ended, the durations, the
\* tracks and the output are those of a sequential run.
C23_InterleavedRunsSafe ==
    /\ \A p \in DOMAIN procs : procs[p].used = {}
    /\ (procs # << >> /\ \A p \in DOMAIN procs : procs[p].pc = "done") =>
          /\ \A p \in DOMAIN procs : procs[p].slide_durations = SequentialDurations
          /\ work[FullAudio] = SequentialAudio
          /\ work[VideoOnly] = SequentialVideo
          /\ output = Min(SequentialVideo, SequentialAudio)

====
